---------------------------- MODULE Spec2Model ----------------------------
(***************************************************************************)
(* Model of server.js of the Arweave block explorer: the WebSocket         *)
(* message handlers (get_day, get_day_visual, get_towers_recent_30d,       *)
(* get_towers_quick, close) and the scans they start                       *)
(* (streamBlocksForDay with findStartHeightForDate,                        *)
(* streamRecentTransactionsQuick, streamMediaTransactions, all of them     *)
(* using fetchAllBlockTransactions or a tag query).                        *)
(*                                                                         *)
(* Node runs one handler or one continuation of an async function at a     *)
(* time: every action below is the code that runs between two awaits.      *)
(* A task is one call of a scan function; its pc names the await it is     *)
(* suspended at.  The remote gateway (arweave.net) is the environment: it  *)
(* is a ledger fixed in the initial state plus a nondeterministic outcome  *)
(* (answer or failure) for each request.                                   *)
(*                                                                         *)
(* ws.send on a socket that is no longer OPEN is modelled as dropping the  *)
(* message (the behaviour of ws >= 7.2; it neither delivers nor throws).   *)
(***************************************************************************)
EXTENDS Integers, Sequences, FiniteSets, TLC

(***************************************************************************)
(* Bounds of the model.                                                    *)
(***************************************************************************)
\* number of client requests handled in one behaviour
MaxTasks == 2
\* number of remote requests the environment may fail in one behaviour
MaxFaults == 1
\* largest frontier height of the ledgers drawn for the day-scan runs
MaxFrontier == 3
\* number of records the gateway returns per page at most (it is asked for
\* PageFirst and may return fewer)
RemotePageCap == 2

(***************************************************************************)
(* Program constants.                                                      *)
(***************************************************************************)
\* first: 100 in the GraphQL queries
PageFirst == 100
\* maxAttempts of fetchAllBlockTransactions
MaxAttempts == 10
\* seconds of a UTC day (setUTCHours(23, 59, 59, 999), setDate(getDate() - 1))
DaySeconds == 86400
\* for (let i = 0; i < 7; i++)
VisualDays == 7
\* defaults and clamps of the handlers and of streamRecentTransactionsQuick
QuickMinScans == 10
QuickMaxScans == 20000
QuickPerTypeMin == 50
QuickPerTypeMax == 1000
QuickPerTypeDefault == 200
QuickBlockMin == 200
QuickBlockMax == 20000
QuickBlockDefault == 3000
MediaPerTypeMin == 1
MediaPerTypeMax == 2000
MediaPerTypeDefault == 500
\* streamMediaTransactions(ws, 30, limit)
MediaWindowDays == 30
\* scanned % 25 === 0, additionsSinceLastSend >= 20
SnapshotEvery == 25
SnapshotAdds == 20

Min(a, b) == IF a < b THEN a ELSE b
Max(a, b) == IF a > b THEN a ELSE b

(***************************************************************************)
(* Records and their tags.  A tag value is the list of the pieces of the   *)
(* string between its '/' characters: "image/png" is <<"image", "png">>,   *)
(* "other" is <<"other">>, the empty string is <<"">>.  Undef is the       *)
(* JavaScript undefined of a missing property.                             *)
(***************************************************************************)
Undef == <<>>
Falsy(v) == v = Undef \/ v = <<"">>

Cats == {"image", "video", "audio", "application", "other"}
MediaCats == <<"image", "video", "audio">>

RECURSIVE TagGet(_, _)
\* tagsObj[name] after tags.reduce((acc, t) => { acc[t.name] = t.value }, {}):
\* the value of the last tag of that name
TagGet(tags, name) ==
  IF tags = <<>> THEN Undef
  ELSE LET last == tags[Len(tags)]
       IN IF last.name = name THEN last.value
          ELSE TagGet(SubSeq(tags, 1, Len(tags) - 1), name)

\* ct.includes('/')
HasSlash(v) == Len(v) > 1

\* streamRecentTransactionsQuick: ct, main and key of one node
QuickCt(tags) ==
  LET a == TagGet(tags, "Content-Type")
      b == TagGet(tags, "content-type")
  IN IF ~Falsy(a) THEN a ELSE IF ~Falsy(b) THEN b ELSE <<"other">>

QuickKey(tags) ==
  LET ct == QuickCt(tags)
      main == ct[1]
  IN IF main \in {"image", "video", "audio", "application"} THEN main ELSE "other"

\* streamMediaTransactions: ct, main and key of one node
MediaKey(tags) ==
  LET a == TagGet(tags, "Content-Type")
      ct == IF ~Falsy(a) THEN a ELSE <<"other">>
      main == IF HasSlash(ct) THEN ct[1] ELSE "other"
  IN IF main \in {"image", "video", "audio"} THEN main ELSE "other"

\* streamBlocksForDay: tx.tags['Content-Type'] && ....startsWith('image/')
IsImageTx(tags) ==
  LET a == TagGet(tags, "Content-Type")
  IN ~Falsy(a) /\ HasSlash(a) /\ a[1] = "image"

HasVisual(edges) == \E i \in 1..Len(edges) : IsImageTx(edges[i].tags)

\* the records the ledgers are built from
Tag(n, v) == [name |-> n, value |-> v]
\* bts: the timestamp of the block of the record (node.block.timestamp)
Rec(i, tags, bts) == [id |-> i, tags |-> tags, bts |-> bts]
ImageTags == <<Tag("Content-Type", <<"image", "png">>)>>
VideoTags == <<Tag("Content-Type", <<"video", "mp4">>)>>
AudioTags == <<Tag("Content-Type", <<"audio", "mpeg">>)>>
AppTags == <<Tag("App-Name", <<"x">>), Tag("Content-Type", <<"application", "json">>)>>
TextTags == <<Tag("Content-Type", <<"text", "plain">>)>>
LowerTags == <<Tag("content-type", <<"image", "gif">>)>>
NoTags == <<>>
\* the tag name in another case
CapTags == <<Tag("Content-type", <<"image", "jpeg">>)>>
\* the tag name twice
RepeatTags == <<Tag("Content-Type", <<"image", "png">>),
                Tag("Content-Type", <<"application", "json">>)>>

(***************************************************************************)
(* Request parameters as the client sends them: a missing field, a value   *)
(* parseInt cannot read, or an integer.                                    *)
(***************************************************************************)
RawMissing == [k |-> "missing", n |-> 0]
RawNaN == [k |-> "nan", n |-> 0]
RawInt(n) == [k |-> "int", n |-> n]

\* parseInt(raw || dflt, 10) || dflt
ParseOr(raw, dflt) ==
  IF raw.k # "int" \/ raw.n = 0 THEN dflt ELSE raw.n

\* Clamp without the lower bound
ClampNoFloor(lo, hi, v) == Min(hi, v)

Clamp(lo, hi, v) == Max(lo, Min(hi, v))

\* get_towers_quick: perType and blockLimit
QuickPerType(raw) == Clamp(QuickPerTypeMin, QuickPerTypeMax, ParseOr(raw, QuickPerTypeDefault))
QuickBlockLimit(raw) == Clamp(QuickBlockMin, QuickBlockMax, ParseOr(raw, QuickBlockDefault))
\* get_towers_recent_30d: limit
MediaLimit(raw) == Clamp(MediaPerTypeMin, MediaPerTypeMax, ParseOr(raw, MediaPerTypeDefault))
\* maxScans without the floor of 10
QuickMaxScansNoFloor(blockScanLimit) == Min(QuickMaxScans, blockScanLimit)

\* streamRecentTransactionsQuick: maxScans
QuickMaxScansOf(blockScanLimit) == Max(QuickMinScans, Min(QuickMaxScans, blockScanLimit))

(***************************************************************************)
(* The remote gateway.  A ledger has the blocks of heights 0..frontier     *)
(* (ts[h + 1] is the timestamp of height h, txs[h + 1] its records in      *)
(* source order) and, for the tag queries, the records of each media       *)
(* content type in the order of the index.                                 *)
(***************************************************************************)
VARIABLES
  ledger,   \* the remote data
  alive,    \* the node process is running
  open,     \* open[c]: ws.readyState === WebSocket.OPEN of connection c
  active,   \* activeStreams: active[c] is the streamControl of c, 0 when absent
  ctls,     \* the streamControl objects ever created: ctls[i] is its stop flag
  tasks,    \* the calls of the scan functions, in the order they were started
  faults    \* remote requests failed so far

vars == <<ledger, alive, open, active, ctls, tasks, faults>>

\* connections
NumConns == 2
Conns == 1..NumConns

Frontier == Len(ledger.ts) - 1
Exists(h) == h >= 0 /\ h <= Frontier
BlockTs(h) == ledger.ts[h + 1]

\* a cursor is the position of the record in its list; null is 0
NullCursor == 0

\* the page of a list of records that follows the cursor, as the gateway
\* returns it for "first: 100, after: $after"
PageOf(recs, after) ==
  LET n == Min(Min(PageFirst, RemotePageCap), Len(recs) - after)
  IN [edges |-> [i \in 1..n |-> [cursor |-> after + i,
                                 id |-> recs[after + i].id,
                                 tags |-> recs[after + i].tags,
                                 bts |-> recs[after + i].bts]],
      hasNextPage |-> after + n < Len(recs)]

\* transactions(block: {min: height, max: height}, sort: HEIGHT_ASC, ...)
BlockPage(h, after) == PageOf(IF Exists(h) THEN ledger.txs[h + 1] ELSE <<>>, after)
\* transactions(tags: [{name: "Content-Type", values: ["<ct>*"]}], ...)
TagPage(ct, after) == PageOf(ledger.tagged[ct], after)

(***************************************************************************)
(* Tasks.  The fields are the local variables of the scan functions; out   *)
(* is what the task has sent to its connection, in order.  failed,         *)
(* sinceStop and sinceClose are history: whether a remote request of the   *)
(* task has failed, and how many times (up to 2) the task has resumed      *)
(* since its stop flag was set, and since its connection closed;           *)
(* sentSinceStop is the number of newBlock messages it has sent since its  *)
(* stop flag was set.                                                      *)
(***************************************************************************)
EmptyBuckets == [c \in Cats |-> <<>>]
\* a message: its type, and of a newBlock the height and isVisual, of a
\* towers or towers_partial the buckets
Msg(type, h) == [type |-> type, h |-> h, visual |-> FALSE, data |-> EmptyBuckets]
Snap(type, buckets) == [type |-> type, h |-> -1, visual |-> FALSE, data |-> buckets]

NewTask(kind, c, ctl) ==
  [kind |-> kind, conn |-> c, ctl |-> ctl, pc |-> "new",
   \* streamBlocksForDay, findStartHeightForDate, the get_day_visual loop
   target |-> 0, hasEnd |-> FALSE, endOv |-> 0, visualOnly |-> FALSE,
   infoHeight |-> 0, low |-> 0, high |-> 0, startHeight |-> -1, mid |-> 0,
   start |-> 0, endTs |-> 0, cur |-> 0, visualBlockSent |-> FALSE, day |-> 0,
   \* fetchAllBlockTransactions
   edges |-> <<>>, after |-> NullCursor, hasNextPage |-> TRUE, attempts |-> 0,
   \* streamRecentTransactionsQuick, streamMediaTransactions
   blockScanLimit |-> 0, blockTs |-> 0, scanned |-> 0, maxScans |-> 0, limit |-> 0,
   buckets |-> EmptyBuckets, adds |-> 0, ct |-> 1, startTs |-> 0,
   out |-> <<>>, failed |-> FALSE, sinceStop |-> 0, sinceClose |-> 0,
   sentSinceStop |-> 0]

\* ws.send(JSON.stringify(m))
Send(tk, m) == IF open[tk.conn] THEN [tk EXCEPT !.out = Append(@, m)] ELSE tk

\* streamControl.stop of the task's control object
Stopped(tk) == tk.ctl # 0 /\ ctls[tk.ctl]

(***************************************************************************)
(* streamBlocksForDay and findStartHeightForDate.                          *)
(***************************************************************************)
\* streamBlocksForDay up to the await of the info request
DayStart(tk) ==
  LET a == Send([tk EXCEPT !.visualBlockSent = FALSE], Msg("loadingStatus", -1))
      b == Send(a, Msg("loadingStatus", -1))
  IN [b EXCEPT !.pc = "info"]

\* the get_day_visual loop after streamBlocksForDay has returned found
VisualNext(tk, found) ==
  IF found THEN [Send(tk, Msg("dayStreamComplete", -1)) EXCEPT !.pc = "done"]
  ELSE LET a == IF tk.day = VisualDays - 1 THEN Send(tk, Msg("error", -1)) ELSE tk
           b == [a EXCEPT !.target = @ - DaySeconds, !.day = @ + 1]
       IN IF b.day < VisualDays THEN DayStart(b) ELSE [b EXCEPT !.pc = "done"]

\* DayFinish without the if (!visualOnly) around the send
DayFinishAlways(tk) ==
  LET a == Send(tk, Msg("dayStreamComplete", -1))
  IN IF tk.kind = "visual" THEN VisualNext(a, a.visualBlockSent)
     ELSE [a EXCEPT !.pc = "done"]

\* streamBlocksForDay after its loop
DayFinish(tk) ==
  LET a == IF ~tk.visualOnly THEN Send(tk, Msg("dayStreamComplete", -1)) ELSE tk
  IN IF tk.kind = "visual" THEN VisualNext(a, a.visualBlockSent)
     ELSE [a EXCEPT !.pc = "done"]

\* DayLoopStop that does not read streamControl.stop
DayLoopStopClosedOnly(tk) == ~open[tk.conn]

\* the top of the while (true) loop
DayLoopStop(tk) == ~open[tk.conn] \/ Stopped(tk)

DayLoop(tk) ==
  IF DayLoopStop(tk) THEN DayFinish(tk) ELSE [tk EXCEPT !.pc = "block"]

\* the end-of-day timestamp of the date, or the client's override
EndOfDay(target) == (target \div DaySeconds) * DaySeconds + (DaySeconds - 1)
\* EndTimestamp that ignores the client's override
EndTimestampOfDay(tk) == EndOfDay(tk.target)

EndTimestamp(tk) == IF tk.hasEnd THEN tk.endOv ELSE EndOfDay(tk.target)

\* streamBlocksForDay once findStartHeightForDate has returned start
DayStream(tk, start) ==
  LET a == Send([tk EXCEPT !.endTs = EndTimestamp(tk)], Msg("loadingStatus", -1))
  IN DayLoop([a EXCEPT !.start = start, !.cur = start])

\* while (low <= high) of findStartHeightForDate, and its return
LocatorLoop(tk) ==
  IF tk.low <= tk.high
  THEN [tk EXCEPT !.mid = tk.low + ((tk.high - tk.low) \div 2), !.pc = "probe"]
  ELSE DayStream(tk, IF tk.startHeight = -1 THEN tk.infoHeight + 1 ELSE tk.startHeight)

\* the info request of findStartHeightForDate has answered or failed
DayInfoDone(tk, ok) ==
  IF ok
  THEN LocatorLoop([tk EXCEPT !.infoHeight = Frontier, !.high = Frontier,
                              !.low = 0, !.startHeight = -1])
  ELSE DayStream(Send(tk, Msg("error", -1)), 0)

\* AtOrAfter with > for >=
AtOrAfterStrict(ts, target) == ts > target

\* block.timestamp >= targetTimestamp
AtOrAfter(ts, target) == ts >= target

\* DayProbeDone that keeps the height of a probe that failed in the interval
DayProbeFailedKeepsMid(tk, ok) ==
  LET a == IF ~ok THEN [tk EXCEPT !.high = tk.mid]
           ELSE IF AtOrAfter(BlockTs(tk.mid), tk.target)
                THEN [tk EXCEPT !.startHeight = tk.mid, !.high = tk.mid - 1]
                ELSE [tk EXCEPT !.low = tk.mid + 1]
  IN [a EXCEPT !.pc = "probeDelay"]

\* DayProbeDone that takes a probe that failed for a match
DayProbeFailedMatches(tk, ok) ==
  LET a == IF ~ok \/ AtOrAfter(BlockTs(tk.mid), tk.target)
           THEN [tk EXCEPT !.startHeight = tk.mid, !.high = tk.mid - 1]
           ELSE [tk EXCEPT !.low = tk.mid + 1]
  IN [a EXCEPT !.pc = "probeDelay"]

\* the probe of height mid has answered or failed
DayProbeDone(tk, ok) ==
  LET a == IF ~ok THEN [tk EXCEPT !.high = tk.mid - 1]
           ELSE IF AtOrAfter(BlockTs(tk.mid), tk.target)
                THEN [tk EXCEPT !.startHeight = tk.mid, !.high = tk.mid - 1]
                ELSE [tk EXCEPT !.low = tk.mid + 1]
  IN [a EXCEPT !.pc = "probeDelay"]

\* PastEnd with >= for >
PastEndInclusive(ts, endTs) == ts >= endTs

\* blockRes.data.timestamp > endOfDayTimestamp
PastEnd(ts, endTs) == ts > endTs

\* the rest of the loop body once fetchAllBlockTransactions has returned
DayProcess(tk) ==
  LET hasVisual == HasVisual(tk.edges)
      emit == ~tk.visualOnly \/ hasVisual
      a == IF emit THEN Send(tk, [Msg("newBlock", tk.cur) EXCEPT !.visual = hasVisual])
           ELSE tk
      b == IF emit /\ tk.visualOnly /\ hasVisual
           THEN [a EXCEPT !.visualBlockSent = TRUE] ELSE a
  IN [b EXCEPT !.cur = @ + 1, !.pc = "blockDelay"]

(***************************************************************************)
(* streamRecentTransactionsQuick.                                          *)
(***************************************************************************)
\* wantMore()
WantMore(buckets, limit) ==
  \/ Len(buckets["image"]) < limit
  \/ Len(buckets["video"]) < limit
  \/ Len(buckets["audio"]) < limit

\* HasRoom with <= for <
HasRoomOffByOne(bucket, limit) == Len(bucket) <= limit

\* buckets[key].length < perTypeLimit
HasRoom(bucket, limit) == Len(bucket) < limit

\* QuickOffer with unshift for push
RECURSIVE QuickOfferPrepend(_, _, _)
QuickOfferPrepend(tk, edges, i) ==
  IF i > Len(edges) \/ ~WantMore(tk.buckets, tk.limit) THEN tk
  ELSE LET key == QuickKey(edges[i].tags)
           entry == [id |-> edges[i].id, tags |-> edges[i].tags,
                     height |-> tk.cur, timestamp |-> tk.blockTs]
       IN QuickOfferPrepend(IF Len(tk.buckets[key]) < tk.limit
                            THEN [tk EXCEPT !.buckets[key] = <<entry>> \o @, !.adds = @ + 1]
                            ELSE tk,
                            edges, i + 1)

\* QuickOffer without if (!wantMore()) break
RECURSIVE QuickOfferNoGate(_, _, _)
QuickOfferNoGate(tk, edges, i) ==
  IF i > Len(edges) THEN tk
  ELSE LET key == QuickKey(edges[i].tags)
           entry == [id |-> edges[i].id, tags |-> edges[i].tags,
                     height |-> tk.cur, timestamp |-> tk.blockTs]
       IN QuickOfferNoGate(IF HasRoom(tk.buckets[key], tk.limit)
                           THEN [tk EXCEPT !.buckets[key] = Append(@, entry), !.adds = @ + 1]
                           ELSE tk,
                           edges, i + 1)

\* the for loop over the edges of one height, from edge i on
RECURSIVE QuickOffer(_, _, _)
QuickOffer(tk, edges, i) ==
  IF i > Len(edges) \/ ~WantMore(tk.buckets, tk.limit) THEN tk
  ELSE LET key == QuickKey(edges[i].tags)
           entry == [id |-> edges[i].id, tags |-> edges[i].tags,
                     height |-> tk.cur, timestamp |-> tk.blockTs]
       IN QuickOffer(IF HasRoom(tk.buckets[key], tk.limit)
                     THEN [tk EXCEPT !.buckets[key] = Append(@, entry), !.adds = @ + 1]
                     ELSE tk,
                     edges, i + 1)

\* after the loop: the final snapshot
QuickFinish(tk) ==
  LET a == Send(tk, Snap("towers", tk.buckets))
  IN [Send(a, Msg("loadingStatus", -1)) EXCEPT !.pc = "done"]

\* QuickLoop that also reads a counter all the scans share
QuickLoopShared(tk) ==
  IF tk.cur > 0 /\ tk.scanned < tk.maxScans /\ open[tk.conn] /\ faults = 0
  THEN [tk EXCEPT !.pc = "block"]
  ELSE [Send(Send(tk, Snap("towers", tk.buckets)), Msg("loadingStatus", -1))
        EXCEPT !.pc = "done"]

\* while (currentHeight > 0 && scanned < maxScans) and the readyState check
QuickLoop(tk) ==
  IF tk.cur > 0 /\ tk.scanned < tk.maxScans /\ open[tk.conn]
  THEN [tk EXCEPT !.pc = "block"]
  ELSE QuickFinish(tk)

\* scanned === 1 || scanned % 25 === 0 || additionsSinceLastSend >= 20
QuickSnapshotDue(scanned, adds) ==
  scanned = 1 \/ scanned % SnapshotEvery = 0 \/ adds >= SnapshotAdds

\* the rest of the loop body once fetchAllBlockTransactions has returned
QuickProcess(tk) ==
  LET a == QuickOffer(tk, tk.edges, 1)
      b == [a EXCEPT !.cur = @ - 1, !.scanned = @ + 1]
      c == IF QuickSnapshotDue(b.scanned, b.adds)
           THEN [Send(Send(b, Msg("loadingStatus", -1)), Snap("towers_partial", b.buckets))
                 EXCEPT !.adds = 0]
           ELSE b
  IN [c EXCEPT !.pc = "quickDelay"]

\* QuickInfoDone that goes on to the loop after the error message
QuickInfoFailedGoesOn(tk, ok) ==
  QuickLoop([(IF ok THEN tk ELSE Send(tk, Msg("error", -1)))
               EXCEPT !.cur = IF ok THEN Frontier ELSE 0, !.scanned = 0, !.adds = 0,
                      !.buckets = EmptyBuckets])

\* the info request has answered or failed
QuickInfoDone(tk, ok) ==
  IF ok THEN QuickLoop([tk EXCEPT !.cur = Frontier, !.scanned = 0, !.adds = 0,
                                  !.buckets = EmptyBuckets])
  ELSE [Send(tk, Msg("error", -1)) EXCEPT !.pc = "done"]

\* QuickBlockFailed without the scanned++
QuickBlockFailedUncounted(tk) == QuickLoop([tk EXCEPT !.cur = @ - 1])

\* the block request has answered, or has failed or answered without a body
QuickBlockFailed(tk) == QuickLoop([tk EXCEPT !.cur = @ - 1, !.scanned = @ + 1])

(***************************************************************************)
(* fetchAllBlockTransactions(currentHeight), called by both scans.         *)
(***************************************************************************)
\* return edges, into the caller
FetchReturn(tk) ==
  IF tk.kind = "quick" THEN QuickProcess(tk) ELSE DayProcess(tk)

\* FetchLoop that asks for one page only
FetchLoopOnce(tk) ==
  IF tk.hasNextPage /\ tk.attempts < 1
  THEN [tk EXCEPT !.pc = "page"] ELSE FetchReturn(tk)

\* while (hasNextPage && attempts < maxAttempts)
FetchLoop(tk) ==
  IF tk.hasNextPage /\ tk.attempts < MaxAttempts
  THEN [tk EXCEPT !.pc = "page"] ELSE FetchReturn(tk)

FetchStart(tk) ==
  FetchLoop([tk EXCEPT !.edges = <<>>, !.after = NullCursor,
                       !.hasNextPage = TRUE, !.attempts = 0])

\* FetchPageDone that asks for the page again when the request has failed
FetchPageRetries(tk, res) ==
  IF res = "fail" THEN [tk EXCEPT !.pc = "page"]
  ELSE IF res = "null" THEN FetchReturn(tk)
  ELSE LET page == BlockPage(tk.cur, tk.after)
           n == Len(page.edges)
           a == [tk EXCEPT !.edges = @ \o page.edges,
                           !.hasNextPage = page.hasNextPage,
                           !.after = IF n > 0 THEN page.edges[n].cursor ELSE NullCursor,
                           !.attempts = @ + 1]
       IN IF a.hasNextPage THEN [a EXCEPT !.pc = "pageDelay"] ELSE FetchLoop(a)

\* the page request has answered: res is "ok", "null" (no transactions in
\* the answer) or "fail"
FetchPageDone(tk, res) ==
  IF res = "fail" THEN [tk EXCEPT !.pc = "fallback"]
  ELSE IF res = "null" THEN FetchReturn(tk)
  ELSE LET page == BlockPage(tk.cur, tk.after)
           n == Len(page.edges)
           a == [tk EXCEPT !.edges = @ \o page.edges,
                           !.hasNextPage = page.hasNextPage,
                           !.after = IF n > 0 THEN page.edges[n].cursor ELSE NullCursor,
                           !.attempts = @ + 1]
       IN IF a.hasNextPage THEN [a EXCEPT !.pc = "pageDelay"] ELSE FetchLoop(a)

\* FetchFallbackDone without the try around the fallback request
FetchFallbackThrows(tk, res) ==
  IF res = "ok"
  THEN FetchReturn([tk EXCEPT !.edges = @ \o BlockPage(tk.cur, NullCursor).edges])
  ELSE [Send(tk, Msg("error", -1)) EXCEPT !.pc = "done"]

\* the fallback request has answered or failed
FetchFallbackDone(tk, res) ==
  FetchReturn(IF res = "ok"
              THEN [tk EXCEPT !.edges = @ \o BlockPage(tk.cur, NullCursor).edges]
              ELSE tk)

\* DayBlockDone that sends a newBlock for a height whose request has failed
DayBlockEmitsUnreadable(tk, ok) ==
  IF ~ok THEN DayLoop([Send(tk, Msg("newBlock", tk.cur)) EXCEPT !.cur = @ + 1])
  ELSE IF PastEnd(BlockTs(tk.cur), tk.endTs) THEN DayFinish(tk)
  ELSE FetchStart(tk)

\* DayBlockDone that asks for the same height again when the request has failed
DayBlockRetries(tk, ok) ==
  IF ~ok THEN DayLoop(tk)
  ELSE IF PastEnd(BlockTs(tk.cur), tk.endTs) THEN DayFinish(tk)
  ELSE FetchStart(tk)

\* the block request of the day scan has answered or failed
DayBlockDone(tk, ok) ==
  IF ~ok THEN DayLoop([tk EXCEPT !.cur = @ + 1])
  ELSE IF PastEnd(BlockTs(tk.cur), tk.endTs) THEN DayFinish(tk)
  ELSE FetchStart(tk)

QuickBlockDone(tk, ok) ==
  IF ~ok THEN QuickBlockFailed(tk)
  ELSE FetchStart([tk EXCEPT !.blockTs = BlockTs(tk.cur)])

(***************************************************************************)
(* streamMediaTransactions.                                                *)
(***************************************************************************)
\* after the for loop over the content types: the final snapshot
MediaFinish(tk) == [Send(tk, Snap("towers", tk.buckets)) EXCEPT !.pc = "done"]

\* for (const ct of contentTypes) { ...; while (hasNextPage && wantMore()) }
RECURSIVE MediaLoop(_)
MediaLoop(tk) ==
  IF tk.ct > Len(MediaCats) THEN MediaFinish(tk)
  ELSE IF tk.hasNextPage /\ WantMore(tk.buckets, tk.limit) THEN [tk EXCEPT !.pc = "mpage"]
  ELSE MediaLoop([tk EXCEPT !.ct = @ + 1, !.after = NullCursor, !.hasNextPage = TRUE])

\* MediaBreak that leaves the for loop as well
MediaBreakAll(tk) == MediaFinish(tk)

\* break out of the while loop: on to the next content type
MediaBreak(tk) ==
  MediaLoop([tk EXCEPT !.ct = @ + 1, !.after = NullCursor, !.hasNextPage = TRUE])

\* MediaOffer that puts a record in the place of the last of a full bucket
RECURSIVE MediaOfferEvict(_, _, _)
MediaOfferEvict(tk, edges, i) ==
  IF i > Len(edges) THEN tk
  ELSE LET key == MediaKey(edges[i].tags)
           entry == [id |-> edges[i].id, tags |-> edges[i].tags,
                     height |-> edges[i].bts, timestamp |-> edges[i].bts]
       IN MediaOfferEvict(IF HasRoom(tk.buckets[key], tk.limit)
                          THEN [tk EXCEPT !.buckets[key] = Append(@, entry), !.adds = @ + 1]
                          ELSE [tk EXCEPT !.buckets[key][Len(tk.buckets[key])] = entry],
                          edges, i + 1)

\* the for loop over the edges of one page, from edge i on
RECURSIVE MediaOffer(_, _, _)
MediaOffer(tk, edges, i) ==
  IF i > Len(edges) THEN tk
  ELSE LET key == MediaKey(edges[i].tags)
           entry == [id |-> edges[i].id, tags |-> edges[i].tags,
                     height |-> edges[i].bts, timestamp |-> edges[i].bts]
       IN MediaOffer(IF HasRoom(tk.buckets[key], tk.limit)
                     THEN [tk EXCEPT !.buckets[key] = Append(@, entry), !.adds = @ + 1]
                     ELSE tk,
                     edges, i + 1)

\* the tag query has answered: res is "ok", "null" or "fail"
MediaPageDone(tk, res) ==
  IF res # "ok" THEN MediaBreak(tk)
  ELSE LET page == TagPage(MediaCats[tk.ct], tk.after)
           n == Len(page.edges)
           a == MediaOffer(tk, page.edges, 1)
           b == [a EXCEPT !.hasNextPage = page.hasNextPage,
                          !.after = IF n > 0 THEN page.edges[n].cursor ELSE NullCursor]
           c == IF b.adds >= SnapshotAdds
                THEN [Send(b, Snap("towers_partial", b.buckets)) EXCEPT !.adds = 0]
                ELSE b
       IN [c EXCEPT !.pc = "mdelay"]

\* new Date() when streamMediaTransactions is called, in seconds
Clock == 31 * DaySeconds + 25

\* streamMediaTransactions(ws, days, perTypeLimit) up to the await of the
\* first tag query
MediaStart(tk, days, perTypeLimit) ==
  MediaLoop(Send([tk EXCEPT !.limit = perTypeLimit,
                            !.startTs = Clock - days * DaySeconds,
                            !.buckets = EmptyBuckets, !.adds = 0, !.ct = 1,
                            !.after = NullCursor, !.hasNextPage = TRUE],
                 Msg("loadingStatus", -1)))

\* streamRecentTransactionsQuick(ws, blockScanLimit, perTypeLimit) up to the
\* await of the info request
QuickStart(tk, blockScanLimit, perTypeLimit) ==
  [tk EXCEPT !.blockScanLimit = blockScanLimit, !.limit = perTypeLimit,
             !.maxScans = QuickMaxScansOf(blockScanLimit), !.pc = "info"]

(***************************************************************************)
(* The handlers of a connection: ws.on('message') and ws.on('close').      *)
(***************************************************************************)
\* if (activeStreams.has(ws)) activeStreams.get(ws).stop = true
StopActive(c) == IF active[c] # 0 THEN [ctls EXCEPT ![active[c]] = TRUE] ELSE ctls

CanReceive(c) == alive /\ open[c] /\ Len(tasks) < MaxTasks

\* InstallControl that leaves the control it replaces as it is
InstallControlNoStop(c) ==
  /\ ctls' = Append(ctls, FALSE)
  /\ active' = [active EXCEPT ![c] = Len(ctls) + 1]

\* the streamControl a get_day or get_day_visual request installs
InstallControl(c) ==
  /\ ctls' = Append(StopActive(c), FALSE)
  /\ active' = [active EXCEPT ![c] = Len(ctls) + 1]

\* activeStreams.delete(ws) after stopping
DeleteControl(c) ==
  /\ ctls' = StopActive(c)
  /\ active' = [active EXCEPT ![c] = 0]

GetDay(c, start, hasEnd, end) ==
  /\ CanReceive(c)
  /\ InstallControl(c)
  /\ tasks' = Append(tasks, DayStart([NewTask("day", c, Len(ctls) + 1) EXCEPT
                                        !.target = start, !.hasEnd = hasEnd,
                                        !.endOv = end, !.visualOnly = FALSE]))
  /\ UNCHANGED <<ledger, alive, open, faults>>

GetDayVisual(c, date) ==
  /\ CanReceive(c)
  /\ InstallControl(c)
  /\ tasks' = Append(tasks, DayStart([NewTask("visual", c, Len(ctls) + 1) EXCEPT
                                        !.target = date, !.visualOnly = TRUE]))
  /\ UNCHANGED <<ledger, alive, open, faults>>

GetTowersRecent30d(c, rawPerType) ==
  /\ CanReceive(c)
  /\ DeleteControl(c)
  /\ tasks' = Append(tasks, MediaStart(NewTask("media", c, 0), MediaWindowDays,
                                       MediaLimit(rawPerType)))
  /\ UNCHANGED <<ledger, alive, open, faults>>

GetTowersQuick(c, rawPerType, rawBlockLimit) ==
  /\ CanReceive(c)
  /\ DeleteControl(c)
  /\ tasks' = Append(tasks, QuickStart(NewTask("quick", c, 0),
                                       QuickBlockLimit(rawBlockLimit),
                                       QuickPerType(rawPerType)))
  /\ UNCHANGED <<ledger, alive, open, faults>>

\* a message JSON.parse cannot read: the exception leaves the listener and,
\* being caught nowhere, ends the process
BadMessage(c) ==
  /\ alive /\ open[c]
  /\ alive' = FALSE
  /\ UNCHANGED <<ledger, open, active, ctls, tasks, faults>>

\* ws.on('close')
Close(c) ==
  /\ alive /\ open[c]
  /\ open' = [open EXCEPT ![c] = FALSE]
  /\ DeleteControl(c)
  /\ UNCHANGED <<ledger, alive, tasks, faults>>

(***************************************************************************)
(* The continuations of the tasks.                                         *)
(***************************************************************************)
\* the outcomes the environment may give a request
Outcomes == IF faults < MaxFaults THEN {"ok", "fail"} ELSE {"ok"}
PageOutcomes == IF faults < MaxFaults THEN {"ok", "null", "fail"} ELSE {"ok"}

\* A ledger may fix the outcome of every request (its script: the requests
\* that fail and those answered without a page); a request is named by the
\* await, the height, the content type and the cursor it is made with.
Scripted == "script" \in DOMAIN ledger
RequestKey(tk) == <<tk.pc, IF tk.pc = "probe" THEN tk.mid ELSE tk.cur, tk.ct, tk.after>>
ScriptedOutcome(tk) ==
  IF RequestKey(tk) \in ledger.script.fail THEN "fail"
  ELSE IF RequestKey(tk) \in ledger.script.null THEN "null"
  ELSE "ok"
OutcomesOf(tk) == IF Scripted THEN {ScriptedOutcome(tk)} ELSE Outcomes
PageOutcomesOf(tk) == IF Scripted THEN {ScriptedOutcome(tk)} ELSE PageOutcomes
FallbackOutcomesOf(tk) == IF Scripted THEN {ScriptedOutcome(tk)} ELSE {"ok", "fail"}

Bump(n) == IF n < 2 THEN n + 1 ELSE n

\* the newBlock messages in what a task has sent
NewBlocksIn(out) == Cardinality({i \in 1..Len(out) : out[i].type = "newBlock"})

\* task t resumes and runs to its next await, ending as new
Resume(t, new, res) ==
  /\ tasks' = [tasks EXCEPT ![t] =
        [new EXCEPT !.failed = @ \/ res # "ok",
                    !.sinceStop = IF Stopped(tasks[t]) THEN Bump(@) ELSE @,
                    !.sinceClose = IF ~open[tasks[t].conn] THEN Bump(@) ELSE @,
                    !.sentSinceStop =
                       IF Stopped(tasks[t])
                       THEN @ + NewBlocksIn(new.out) - NewBlocksIn(tasks[t].out)
                       ELSE @]]
  /\ faults' = IF res # "ok" /\ res # "404" THEN faults + 1 ELSE faults
  /\ UNCHANGED <<ledger, alive, open, active, ctls>>

\* the tasks there can be
TaskIds == 1..MaxTasks

At(t, pc) == alive /\ t \in 1..Len(tasks) /\ tasks[t].pc = pc

InfoDone(t) ==
  /\ At(t, "info")
  /\ \E res \in OutcomesOf(tasks[t]) :
       Resume(t, IF tasks[t].kind = "quick" THEN QuickInfoDone(tasks[t], res = "ok")
                 ELSE DayInfoDone(tasks[t], res = "ok"), res)

ProbeDone(t) ==
  /\ At(t, "probe")
  /\ \E res \in OutcomesOf(tasks[t]) : Resume(t, DayProbeDone(tasks[t], res = "ok"), res)

ProbeDelayDone(t) ==
  /\ At(t, "probeDelay")
  /\ Resume(t, LocatorLoop(tasks[t]), "ok")

\* heights past the frontier the day scan is followed to
MaxBeyond == 1

BlockDone(t) ==
  /\ At(t, "block")
  /\ tasks[t].cur <= Frontier + MaxBeyond
  /\ \E res \in (IF Exists(tasks[t].cur) THEN OutcomesOf(tasks[t]) ELSE {"404"}) :
       Resume(t, IF tasks[t].kind = "quick" THEN QuickBlockDone(tasks[t], res = "ok")
                 ELSE DayBlockDone(tasks[t], res = "ok"), res)

PageDone(t) ==
  /\ At(t, "page")
  /\ \E res \in PageOutcomesOf(tasks[t]) : Resume(t, FetchPageDone(tasks[t], res), res)

PageDelayDone(t) ==
  /\ At(t, "pageDelay")
  /\ Resume(t, FetchLoop(tasks[t]), "ok")

FallbackDone(t) ==
  /\ At(t, "fallback")
  /\ \E res \in FallbackOutcomesOf(tasks[t]) : Resume(t, FetchFallbackDone(tasks[t], res), res)

BlockDelayDone(t) ==
  /\ At(t, "blockDelay")
  /\ Resume(t, DayLoop(tasks[t]), "ok")

QuickDelayDone(t) ==
  /\ At(t, "quickDelay")
  /\ Resume(t, QuickLoop(tasks[t]), "ok")

MediaDone(t) ==
  /\ At(t, "mpage")
  /\ \E res \in PageOutcomesOf(tasks[t]) : Resume(t, MediaPageDone(tasks[t], res), res)

MediaDelayDone(t) ==
  /\ At(t, "mdelay")
  /\ Resume(t, MediaLoop(tasks[t]), "ok")

(***************************************************************************)
(* The server with its connections: requests, disconnects and the scans    *)
(* they start, over one ledger.                                            *)
(***************************************************************************)
Day1 == DaySeconds
SessionLedger ==
  [ts |-> <<Day1 + 100, 2 * Day1 + 50, 3 * Day1 + 10>>,
   txs |-> << <<Rec(1, AudioTags, 0)>>,
              <<Rec(11, ImageTags, 0), Rec(12, TextTags, 0), Rec(13, VideoTags, 0)>>,
              <<>> >>,
   tagged |-> [c \in {"image", "video", "audio"} |->
                 IF c = "image"
                 THEN <<Rec(11, ImageTags, 2 * Day1 + 50), Rec(31, ImageTags, 0),
                        Rec(32, LowerTags, 3 * Day1)>>
                 ELSE IF c = "video" THEN <<Rec(13, VideoTags, 2 * Day1 + 50)>>
                 ELSE <<>>]]

\* what the clients of the session runs send
DayStarts == {2 * Day1}
DayEnds == {2 * Day1 + 50}
VisualDates == {2 * Day1}
RawLimits == {RawInt(3)}

\* the connections of the session runs; the others are not connected
SessionConns == {1}

Init ==
  /\ ledger = SessionLedger
  /\ alive = TRUE
  /\ open = [c \in Conns |-> c \in SessionConns]
  /\ active = [c \in Conns |-> 0]
  /\ ctls = <<>>
  /\ tasks = <<>>
  /\ faults = 0

Requests ==
  \E c \in Conns :
    \/ \E s \in DayStarts, e \in DayEnds : GetDay(c, s, TRUE, e)
    \/ \E d \in VisualDates : GetDayVisual(c, d)
    \/ \E r \in RawLimits : GetTowersRecent30d(c, r)
    \/ \E r \in RawLimits : GetTowersQuick(c, r, r)
    \/ BadMessage(c)
    \/ Close(c)

Steps ==
  \E t \in TaskIds :
    \/ InfoDone(t)
    \/ ProbeDone(t)
    \/ ProbeDelayDone(t)
    \/ BlockDone(t)
    \/ PageDone(t)
    \/ PageDelayDone(t)
    \/ FallbackDone(t)
    \/ BlockDelayDone(t)
    \/ QuickDelayDone(t)
    \/ MediaDone(t)
    \/ MediaDelayDone(t)

Next == Requests \/ Steps

Spec == Init /\ [][Next]_vars

(***************************************************************************)
(* One get_day scan over every small ledger: the timestamps of heights     *)
(* 0..frontier are non-decreasing, the records of a height follow from     *)
(* the height.                                                             *)
(***************************************************************************)
DayTsValues == {Day1, Day1 + 10, Day1 + 20, Day1 + 30}
DayTargets == {Day1, Day1 + 20, Day1 + 35}
DayEndOverrides == {Day1 + 20, Day1 + 25}

NonDecreasing(ts) == \A i \in 1..(Len(ts) - 1) : ts[i] <= ts[i + 1]

DayTxs(h) ==
  IF h % 3 = 1 THEN <<Rec(10 * h + 1, ImageTags, 0), Rec(10 * h + 2, TextTags, 0),
                      Rec(10 * h + 3, VideoTags, 0)>>
  ELSE IF h % 3 = 0 THEN <<Rec(10 * h + 1, TextTags, 0)>>
  ELSE <<>>

DayLedgers ==
  { [ts |-> ts,
     txs |-> [i \in 1..Len(ts) |-> DayTxs(i - 1)],
     tagged |-> [c \in {"image", "video", "audio"} |-> <<>>]] :
    ts \in { s \in UNION { [1..n -> DayTsValues] : n \in 1..(MaxFrontier + 1) } :
             NonDecreasing(s) } }

InitDay ==
  /\ ledger \in DayLedgers
  /\ alive = TRUE
  /\ open = [c \in Conns |-> TRUE]
  /\ active = [c \in Conns |-> IF c = 1 THEN 1 ELSE 0]
  /\ ctls = <<FALSE>>
  /\ faults = 0
  /\ \E target \in DayTargets, hasEnd \in BOOLEAN :
       \E end \in (IF hasEnd THEN DayEndOverrides ELSE {0}) :
         tasks = <<DayStart([NewTask("day", 1, 1) EXCEPT
                               !.target = target, !.hasEnd = hasEnd, !.endOv = end])>>

NextDay ==
  \E t \in TaskIds :
    \/ InfoDone(t)
    \/ ProbeDone(t)
    \/ ProbeDelayDone(t)
    \/ BlockDone(t)
    \/ PageDone(t)
    \/ PageDelayDone(t)
    \/ FallbackDone(t)
    \/ BlockDelayDone(t)

SpecDay == InitDay /\ [][NextDay]_vars

(***************************************************************************)
(* One call of streamRecentTransactionsQuick or streamMediaTransactions    *)
(* with small limits, over a ledger of audio records only and over a       *)
(* ledger of mixed records; the connection may close meanwhile.            *)
(***************************************************************************)
\* frontier of the audio-only ledger
TowerFrontier == 11

AudioLedger ==
  [ts |-> [i \in 1..(TowerFrontier + 1) |-> Day1 + i],
   txs |-> [i \in 1..(TowerFrontier + 1) |-> <<Rec(i, AudioTags, 0)>>],
   tagged |-> [c \in {"image", "video", "audio"} |->
                 IF c = "audio"
                 THEN <<Rec(1, AudioTags, Day1 + 1), Rec(2, AudioTags, Day1 + 2),
                        Rec(3, AudioTags, Day1 + 3)>>
                 ELSE <<>>]]

MixedLedger ==
  [ts |-> <<Day1, Day1 + 10, Day1 + 20, Day1 + 30>>,
   txs |-> << <<Rec(1, VideoTags, 0)>>,
              <<Rec(11, LowerTags, 0), Rec(12, NoTags, 0)>>,
              <<Rec(21, AudioTags, 0), Rec(22, ImageTags, 0), Rec(23, TextTags, 0)>>,
              <<Rec(31, ImageTags, 0), Rec(32, AppTags, 0), Rec(33, VideoTags, 0),
                Rec(34, AppTags, 0)>> >>,
   tagged |-> [c \in {"image", "video", "audio"} |->
                 IF c = "image"
                 THEN <<Rec(22, ImageTags, Day1 + 20), Rec(31, ImageTags, Day1 + 30),
                        Rec(41, LowerTags, 0)>>
                 ELSE IF c = "video"
                 THEN <<Rec(1, VideoTags, Day1), Rec(33, VideoTags, Day1 + 30)>>
                 ELSE <<Rec(21, AudioTags, Day1 + 20)>>]]

\* the newest height has a record of each media type
RichLedger ==
  [ts |-> <<Day1, Day1 + 10, Day1 + 20, Day1 + 30>>,
   txs |-> << <<Rec(1, ImageTags, 0)>>,
              <<Rec(11, TextTags, 0)>>,
              <<Rec(21, AppTags, 0)>>,
              <<Rec(31, ImageTags, 0), Rec(32, VideoTags, 0), Rec(33, AudioTags, 0)>> >>,
   tagged |-> [c \in {"image", "video", "audio"} |->
                 IF c = "image"
                 THEN <<Rec(1, ImageTags, Day1), Rec(31, ImageTags, Day1 + 30)>>
                 ELSE IF c = "video" THEN <<Rec(32, VideoTags, Day1 + 30)>>
                 ELSE <<Rec(33, AudioTags, Day1 + 30)>>]]

TowerLedgers == {AudioLedger, MixedLedger, RichLedger}
\* <<blockScanLimit, perTypeLimit>> of the calls of the quick scan
QuickCalls == {<<5, 3>>, <<5, 1>>, <<12, 2>>}
\* perTypeLimit of the calls of the media scan
MediaCalls == {1, 2}

InitTowers ==
  /\ ledger \in TowerLedgers
  /\ alive = TRUE
  /\ open = [c \in Conns |-> TRUE]
  /\ active = [c \in Conns |-> 0]
  /\ ctls = <<>>
  /\ faults = 0
  /\ tasks \in { <<QuickStart(NewTask("quick", 1, 0), q[1], q[2])>> : q \in QuickCalls }
               \cup { <<MediaStart(NewTask("media", 1, 0), MediaWindowDays, m)>> :
                       m \in MediaCalls }

NextTowers ==
  \/ Close(1)
  \/ \E t \in TaskIds :
       \/ InfoDone(t)
       \/ BlockDone(t)
       \/ PageDone(t)
       \/ PageDelayDone(t)
       \/ FallbackDone(t)
       \/ QuickDelayDone(t)
       \/ MediaDone(t)
       \/ MediaDelayDone(t)

SpecTowers == InitTowers /\ [][NextTowers]_vars

(***************************************************************************)
(* fetchAllBlockTransactions over heights of 0..MaxRecords records: a      *)
(* get_day scan and a quick scan over a ledger of two heights, the upper   *)
(* one holding the records.                                                *)
(***************************************************************************)
\* largest number of records of a height
MaxRecords == 21

FetchTags(i) ==
  IF i % 3 = 0 THEN ImageTags ELSE IF i % 3 = 1 THEN AudioTags ELSE TextTags

FetchLedgers ==
  { [ts |-> <<Day1, Day1 + 10>>,
     txs |-> << <<>>, [i \in 1..n |-> Rec(i, FetchTags(i), 0)] >>,
     tagged |-> [c \in {"image", "video", "audio"} |-> <<>>]] : n \in 0..MaxRecords }

InitFetch ==
  /\ ledger \in FetchLedgers
  /\ alive = TRUE
  /\ open = [c \in Conns |-> TRUE]
  /\ faults = 0
  /\ \/ /\ active = [c \in Conns |-> IF c = 1 THEN 1 ELSE 0]
        /\ ctls = <<FALSE>>
        /\ tasks = <<DayStart([NewTask("day", 1, 1) EXCEPT !.target = Day1 + 5])>>
     \/ /\ active = [c \in Conns |-> 0]
        /\ ctls = <<>>
        /\ tasks = <<QuickStart(NewTask("quick", 1, 0), QuickBlockMin, QuickPerTypeMin)>>

NextFetch ==
  \E t \in TaskIds :
    \/ InfoDone(t)
    \/ ProbeDone(t)
    \/ ProbeDelayDone(t)
    \/ BlockDone(t)
    \/ PageDone(t)
    \/ PageDelayDone(t)
    \/ FallbackDone(t)
    \/ BlockDelayDone(t)
    \/ QuickDelayDone(t)

SpecFetch == InitFetch /\ [][NextFetch]_vars

(***************************************************************************)
(* One get_day_visual request, over the session ledger (an image at        *)
(* height 1) and over a ledger without images.                             *)
(***************************************************************************)
PlainLedger ==
  [ts |-> <<Day1 + 100, 2 * Day1 + 50, 3 * Day1 + 10>>,
   txs |-> << <<Rec(1, AudioTags, 0)>>,
              <<Rec(11, TextTags, 0), Rec(12, LowerTags, 0), Rec(13, VideoTags, 0)>>,
              <<>> >>,
   tagged |-> [c \in {"image", "video", "audio"} |-> <<>>]]

VisualLedgers == {SessionLedger, PlainLedger}

InitVisual ==
  /\ ledger \in VisualLedgers
  /\ alive = TRUE
  /\ open = [c \in Conns |-> TRUE]
  /\ active = [c \in Conns |-> IF c = 1 THEN 1 ELSE 0]
  /\ ctls = <<FALSE>>
  /\ faults = 0
  /\ \E date \in VisualDates :
       tasks = <<DayStart([NewTask("visual", 1, 1) EXCEPT
                             !.target = date, !.visualOnly = TRUE])>>

NextVisual ==
  \E t \in TaskIds :
    \/ InfoDone(t)
    \/ ProbeDone(t)
    \/ ProbeDelayDone(t)
    \/ BlockDone(t)
    \/ PageDone(t)
    \/ PageDelayDone(t)
    \/ FallbackDone(t)
    \/ BlockDelayDone(t)

SpecVisual == InitVisual /\ [][NextVisual]_vars

(***************************************************************************)
(* The tower requests with every kind of client value for their limits.    *)
(***************************************************************************)
\* a value far above every limit
HugeLimit == 1000000000

RawValues ==
  {RawMissing, RawNaN}
    \cup {RawInt(n) : n \in {-HugeLimit, -5, 0, 1, 49, 200, 1001, 2001, 20001, HugeLimit}}

NextLimits ==
  \/ \E c \in Conns, r \in RawValues : GetTowersRecent30d(c, r)
  \/ \E c \in Conns, r \in RawValues, b \in RawValues : GetTowersQuick(c, r, b)
  \/ \E t \in TaskIds : InfoDone(t)

SpecLimits == Init /\ [][NextLimits]_vars

(***************************************************************************)
(* Two connections: connection 2 has a get_day scan running, connection 1  *)
(* sends a request or a malformed message, and either disconnects.         *)
(***************************************************************************)
InitIso ==
  /\ ledger = SessionLedger
  /\ alive = TRUE
  /\ open = [c \in Conns |-> TRUE]
  /\ active = [c \in Conns |-> IF c = 2 THEN 1 ELSE 0]
  /\ ctls = <<FALSE>>
  /\ faults = 0
  /\ \E s \in DayStarts, e \in DayEnds :
       tasks = <<DayStart([NewTask("day", 2, 1) EXCEPT
                             !.target = s, !.hasEnd = TRUE, !.endOv = e])>>

NextIso ==
  \/ \E s \in DayStarts, e \in DayEnds : GetDay(1, s, TRUE, e)
  \/ \E r \in RawLimits : GetTowersRecent30d(1, r)
  \/ BadMessage(1)
  \/ \E c \in Conns : Close(c)
  \/ \E t \in TaskIds :
       \/ InfoDone(t)
       \/ ProbeDone(t)
       \/ ProbeDelayDone(t)
       \/ BlockDone(t)
       \/ PageDone(t)
       \/ PageDelayDone(t)
       \/ FallbackDone(t)
       \/ BlockDelayDone(t)
       \/ MediaDone(t)
       \/ MediaDelayDone(t)

SpecIso == InitIso /\ [][NextIso]_vars

(***************************************************************************)
(* A get_day scan and a quick scan side by side, on two connections, over  *)
(* the ledger of mixed records.                                            *)
(***************************************************************************)
InitOrder ==
  /\ ledger = MixedLedger
  /\ alive = TRUE
  /\ open = [c \in Conns |-> TRUE]
  /\ active = [c \in Conns |-> IF c = 1 THEN 1 ELSE 0]
  /\ ctls = <<FALSE>>
  /\ faults = 0
  /\ \E target \in DayTargets :
       tasks = <<DayStart([NewTask("day", 1, 1) EXCEPT !.target = target]),
                 QuickStart(NewTask("quick", 2, 0), 12, 2)>>

NextOrder ==
  \E t \in TaskIds :
    \/ InfoDone(t)
    \/ ProbeDone(t)
    \/ ProbeDelayDone(t)
    \/ BlockDone(t)
    \/ PageDone(t)
    \/ PageDelayDone(t)
    \/ FallbackDone(t)
    \/ BlockDelayDone(t)
    \/ QuickDelayDone(t)

SpecOrder == InitOrder /\ [][NextOrder]_vars

(***************************************************************************)
(* Two runs of the same scan with the same parameters over the same        *)
(* remote data, the outcome of every request fixed by the ledger.          *)
(***************************************************************************)
NoRequests == {}
Scripts ==
  { [fail |-> NoRequests, null |-> NoRequests],
    [fail |-> {<<"block", 2, 1, 0>>}, null |-> NoRequests],
    [fail |-> {<<"page", 3, 1, 2>>}, null |-> NoRequests],
    [fail |-> {<<"page", 3, 1, 0>>, <<"fallback", 3, 1, 0>>}, null |-> NoRequests],
    [fail |-> NoRequests, null |-> {<<"page", 2, 1, 0>>}],
    [fail |-> {<<"mpage", 0, 1, 2>>}, null |-> NoRequests],
    [fail |-> NoRequests, null |-> {<<"mpage", 0, 2, 0>>}] }

TwinLedgers ==
  { [ts |-> MixedLedger.ts, txs |-> MixedLedger.txs, tagged |-> MixedLedger.tagged,
     script |-> s] : s \in Scripts }

InitTwin ==
  /\ ledger \in TwinLedgers
  /\ alive = TRUE
  /\ open = [c \in Conns |-> TRUE]
  /\ active = [c \in Conns |-> 0]
  /\ ctls = <<>>
  /\ faults = 0
  /\ tasks \in { <<QuickStart(NewTask("quick", 1, 0), q[1], q[2]),
                    QuickStart(NewTask("quick", 2, 0), q[1], q[2])>> : q \in QuickCalls }
               \cup { <<MediaStart(NewTask("media", 1, 0), MediaWindowDays, m),
                         MediaStart(NewTask("media", 2, 0), MediaWindowDays, m)>> :
                       m \in MediaCalls }

NextTwin ==
  \E t \in TaskIds :
    \/ InfoDone(t)
    \/ BlockDone(t)
    \/ PageDone(t)
    \/ PageDelayDone(t)
    \/ FallbackDone(t)
    \/ QuickDelayDone(t)
    \/ MediaDone(t)
    \/ MediaDelayDone(t)

SpecTwin == InitTwin /\ [][NextTwin]_vars

(***************************************************************************)
(* findStartHeightForDate over every small ledger with every set of        *)
(* heights whose probe fails.                                              *)
(***************************************************************************)
\* the probe of height h, as a request
ProbeOf(h) == <<"probe", h, 1, NullCursor>>

LocateLedgers ==
  { [ts |-> l.ts, txs |-> l.txs, tagged |-> l.tagged,
     script |-> [fail |-> {ProbeOf(h) : h \in unreadable}, null |-> NoRequests]] :
    l \in DayLedgers, unreadable \in SUBSET (0..MaxFrontier) }

InitLocate ==
  /\ ledger \in LocateLedgers
  /\ alive = TRUE
  /\ open = [c \in Conns |-> TRUE]
  /\ active = [c \in Conns |-> IF c = 1 THEN 1 ELSE 0]
  /\ ctls = <<FALSE>>
  /\ faults = 0
  /\ \E target \in DayTargets :
       tasks = <<DayStart([NewTask("day", 1, 1) EXCEPT !.target = target])>>

NextLocate ==
  \E t \in TaskIds :
    \/ InfoDone(t)
    \/ ProbeDone(t)
    \/ ProbeDelayDone(t)

SpecLocate == InitLocate /\ [][NextLocate]_vars

(***************************************************************************)
(* One call of the quick scan or of the media scan over a ledger whose     *)
(* records carry the Content-Type tag in its variants.                     *)
(***************************************************************************)
TagLedger ==
  [ts |-> <<Day1, Day1 + 10, Day1 + 20>>,
   txs |-> << <<Rec(1, VideoTags, 0)>>,
              <<Rec(11, CapTags, 0), Rec(12, NoTags, 0)>>,
              <<Rec(21, ImageTags, 0), Rec(22, RepeatTags, 0), Rec(23, LowerTags, 0)>> >>,
   tagged |-> [c \in {"image", "video", "audio"} |->
                 IF c = "image"
                 THEN <<Rec(21, ImageTags, Day1 + 20), Rec(22, RepeatTags, Day1 + 20)>>
                 ELSE IF c = "video" THEN <<Rec(1, VideoTags, Day1)>>
                 ELSE <<>>]]

InitClassify ==
  /\ ledger = TagLedger
  /\ alive = TRUE
  /\ open = [c \in Conns |-> TRUE]
  /\ active = [c \in Conns |-> 0]
  /\ ctls = <<>>
  /\ faults = 0
  /\ tasks \in { <<QuickStart(NewTask("quick", 1, 0), q[1], q[2])>> : q \in QuickCalls }
               \cup { <<MediaStart(NewTask("media", 1, 0), MediaWindowDays, m)>> :
                       m \in MediaCalls }

SpecClassify == InitClassify /\ [][NextTowers]_vars

(***************************************************************************)
(* The handlers of two connections: every order of requests, malformed     *)
(* messages and disconnects, the scans started getting as far as their     *)
(* first answer.                                                           *)
(***************************************************************************)
InitControls ==
  /\ ledger = SessionLedger
  /\ alive = TRUE
  /\ open = [c \in Conns |-> TRUE]
  /\ active = [c \in Conns |-> 0]
  /\ ctls = <<>>
  /\ tasks = <<>>
  /\ faults = 0

NextControls ==
  \/ Requests
  \/ \E t \in TaskIds : InfoDone(t)

SpecControls == InitControls /\ [][NextControls]_vars

(***************************************************************************)
(* Properties.                                                             *)
(***************************************************************************)
Tasks == 1..Len(tasks)
Done(t) == tasks[t].pc = "done"
\* the task is suspended at a request to the gateway
RemotePcs == {"info", "probe", "block", "page", "fallback", "mpage"}
\* the positions in out of the messages of a type
Positions(out, type) == {i \in 1..Len(out) : out[i].type = type}
Count(out, type) == Cardinality(Positions(out, type))
IsLast(out, type) == Len(out) > 0 /\ out[Len(out)].type = type
\* findStartHeightForDate has returned into streamBlocksForDay
Located(t) == tasks[t].pc \notin {"new", "info", "probe", "probeDelay"}

RECURSIVE NewBlockHeights(_)
\* the heights of the newBlock messages, in the order sent
NewBlockHeights(out) ==
  IF out = <<>> THEN <<>>
  ELSE LET rest == NewBlockHeights(SubSeq(out, 1, Len(out) - 1))
           m == out[Len(out)]
       IN IF m.type = "newBlock" THEN Append(rest, m.h) ELSE rest

\* C1: on every connection at most one scan is running without having been
\* cancelled (its stop flag set), at every moment.
C1_SingleActiveScan ==
  alive =>
    \A c \in Conns :
      Cardinality({t \in Tasks : /\ tasks[t].conn = c
                                 /\ ~Done(t)
                                 /\ ~Stopped(tasks[t])}) <= 1

\* C2: once the stop flag of a scan has been set by a newer request and the
\* scan has resumed from the await it was suspended at, it sends nothing more
\* to the connection.
C2_NoEmissionAfterCancel ==
  [][\A t \in Tasks :
       (Stopped(tasks[t]) /\ tasks[t].sinceStop >= 1)
         => tasks'[t].out = tasks[t].out]_vars

\* C3, as claimed: a day scan sends dayStreamComplete at most once, exactly
\* once when a non-visual scan ends, no newBlock after it, and a
\* get_day_visual request never causes a dayStreamComplete.
C3_VisualNeverCompletes ==
  \A t \in Tasks :
    LET out == tasks[t].out
    IN /\ Count(out, "dayStreamComplete") <= 1
       /\ \A i \in Positions(out, "dayStreamComplete"), j \in Positions(out, "newBlock") :
            j < i
       /\ (tasks[t].kind = "day" /\ Done(t) /\ open[tasks[t].conn])
            => Count(out, "dayStreamComplete") = 1
       /\ tasks[t].kind = "visual" => Count(out, "dayStreamComplete") = 0

\* C3, amended: a request sends dayStreamComplete at most once and as its
\* last message; a get_day scan sends it exactly once when it ends (the
\* connection being open); a get_day_visual request gets it exactly when the
\* day scan that just ended sent a block with an image, and not from a day
\* that sent none.
C3_DayStreamComplete ==
  \A t \in Tasks :
    LET out == tasks[t].out
        n == Count(out, "dayStreamComplete")
    IN /\ n <= 1
       /\ n = 1 => (Done(t) /\ IsLast(out, "dayStreamComplete"))
       /\ (tasks[t].kind = "day" /\ Done(t) /\ open[tasks[t].conn]) => n = 1
       /\ (tasks[t].kind = "visual" /\ n = 1)
            => (tasks[t].visualBlockSent /\ Count(out, "newBlock") >= 1)
       /\ (tasks[t].kind = "visual" /\ Done(t) /\ open[tasks[t].conn]
             /\ tasks[t].visualBlockSent) => n = 1

\* a get_day_visual request that found an image block and ended with
\* dayStreamComplete
C3_Witness ==
  \E t \in Tasks :
    /\ tasks[t].kind = "visual" /\ Done(t)
    /\ IsLast(tasks[t].out, "dayStreamComplete")
    /\ Count(tasks[t].out, "newBlock") = 1

\* C4: in the quick and the media scan every bucket holds at most
\* perTypeLimit records, in every state and in every snapshot sent.
C4_BucketCapacity ==
  \A t \in Tasks :
    tasks[t].kind \in {"quick", "media"} =>
      \A c \in Cats :
        /\ Len(tasks[t].buckets[c]) <= tasks[t].limit
        /\ \A i \in 1..Len(tasks[t].out) :
             Len(tasks[t].out[i].data[c]) <= tasks[t].limit

\* a quick scan over the audio ledger has ended with a full audio bucket in
\* its final snapshot, having scanned more audio records than the limit
C4_Witness ==
  \E t \in Tasks :
    /\ tasks[t].kind = "quick" /\ Done(t) /\ ledger = AudioLedger
    /\ tasks[t].scanned > tasks[t].limit
    /\ \E i \in Positions(tasks[t].out, "towers") :
         Len(tasks[t].out[i].data["audio"]) = tasks[t].limit

\* the smallest height whose timestamp is >= target, frontier + 1 when none
TrueStart(target) ==
  LET hs == {h \in 0..Frontier : BlockTs(h) >= target}
  IN IF hs = {} THEN Frontier + 1 ELSE CHOOSE h \in hs : \A g \in hs : h <= g

\* C5: when no request of the locator has failed, findStartHeightForDate
\* returns the smallest height whose timestamp is >= the target, and
\* frontier + 1 when there is none.
C5_HeightLocator ==
  \A t \in Tasks :
    (tasks[t].kind = "day" /\ Located(t) /\ ~tasks[t].failed)
      => tasks[t].start = TrueStart(tasks[t].target)

\* the locator has returned a height that is neither 0 nor the sentinel
C5_Witness ==
  \E t \in Tasks :
    /\ tasks[t].kind = "day" /\ Located(t) /\ ~tasks[t].failed
    /\ tasks[t].start > 0 /\ tasks[t].start <= Frontier
    /\ BlockTs(tasks[t].start - 1) < tasks[t].target

\* C6: while no request has failed, a get_day scan has sent newBlock for
\* exactly the heights from the located start to the one before the height
\* it is at, all of them within the end bound; it ends at the first height
\* past the bound, with dayStreamComplete as its last message, and so has
\* fetched no height above that one.
C6_StopsAtEndBound ==
  \A t \in Tasks :
    (tasks[t].kind = "day" /\ Located(t) /\ ~tasks[t].failed) =>
      LET tk == tasks[t]
      IN /\ tk.cur >= tk.start
         /\ NewBlockHeights(tk.out) = [i \in 1..(tk.cur - tk.start) |-> tk.start + i - 1]
         /\ \A h \in tk.start..(tk.cur - 1) : Exists(h) /\ BlockTs(h) <= tk.endTs
         /\ Done(t) => /\ IsLast(tk.out, "dayStreamComplete")
                       /\ Exists(tk.cur) /\ BlockTs(tk.cur) > tk.endTs

\* timestamps t0, t0 + 10, t0 + 20, t0 + 30 and the bound t0 + 25: the scan
\* has sent newBlock for the first three heights and ended at the fourth
C6_Witness ==
  \E t \in Tasks :
    /\ ledger.ts = <<Day1, Day1 + 10, Day1 + 20, Day1 + 30>>
    /\ tasks[t].kind = "day" /\ Done(t) /\ ~tasks[t].failed
    /\ tasks[t].endTs = Day1 + 25
    /\ NewBlockHeights(tasks[t].out) = <<0, 1, 2>>
    /\ tasks[t].cur = 3

\* the quick scan called with blockScanLimit 5 and perTypeLimit 3 over the
\* ledger of audio records has ended, no request having failed
QuickSmallRun(t) ==
  /\ tasks[t].kind = "quick" /\ ledger = AudioLedger
  /\ tasks[t].blockScanLimit = 5 /\ tasks[t].limit = 3
  /\ Done(t) /\ ~tasks[t].failed /\ open[tasks[t].conn]

\* the final snapshot has 3 audio records and nothing else
AudioOnlyFinal(t) ==
  /\ Count(tasks[t].out, "towers") = 1
  /\ \A i \in Positions(tasks[t].out, "towers") :
       /\ Len(tasks[t].out[i].data["audio"]) = 3
       /\ \A c \in Cats \ {"audio"} : tasks[t].out[i].data[c] = <<>>

C8_NoRequestAfterClose ==
  [][\A t \in Tasks :
       (~open[tasks[t].conn] /\ tasks[t].sinceClose >= 1)
         => ~(tasks'[t] # tasks[t] /\ tasks'[t].pc \in RemotePcs)]_vars

\* C9: a scan that has sent an error message has sent exactly one, as its
\* last message, and has ended.
C9_FailedIsTerminal ==
  \A t \in Tasks :
    Count(tasks[t].out, "error") >= 1
      => /\ Count(tasks[t].out, "error") = 1
         /\ IsLast(tasks[t].out, "error")
         /\ Done(t)

\* C10: no client message and no failure of the gateway ends the process.
C10_ProcessStaysUp == alive

\* the pcs inside fetchAllBlockTransactions, and those it returns to
FetchPcs == {"page", "pageDelay", "fallback"}
ReturnPcs == {"blockDelay", "quickDelay"}
\* the size of the pages the gateway returns
PageSize == Min(PageFirst, RemotePageCap)
\* the height whose records the task has last fetched, once the fetcher has
\* returned into the scan and the scan has advanced
FetchedHeight(tk) == IF tk.kind = "quick" THEN tk.cur + 1 ELSE tk.cur - 1
Ids(recs) == [i \in 1..Len(recs) |-> recs[i].id]

\* C11: whatever the page request and the fallback request answer (a page,
\* no page, a failure), fetchAllBlockTransactions raises nothing: the step
\* sends no error message and leaves the task inside the fetcher or back in
\* the loop of the scan that called it, which goes on.
C11_FetcherNeverFails ==
  [][\A t \in Tasks :
       (tasks[t].pc \in FetchPcs /\ tasks'[t] # tasks[t])
         => /\ tasks'[t].pc \in FetchPcs \cup ReturnPcs
            /\ Count(tasks'[t].out, "error") = Count(tasks[t].out, "error")]_vars

\* both the page request and the fallback request have failed and the scan
\* has gone on to its delay, with the records of the pages before
C11_Witness ==
  \E t \in Tasks :
    /\ faults = 2 /\ tasks[t].pc \in {"blockDelay", "quickDelay"}
    /\ Len(tasks[t].edges) = PageSize
    /\ Count(tasks[t].out, "error") = 0

\* C12: when no request has failed and the records of the height fit in
\* MaxAttempts pages, the list fetchAllBlockTransactions has returned is
\* the list of the records of the height, in source order; while it is
\* paging, it holds the first records and its cursor is that of the last.
C12_FetcherComplete ==
  \A t \in Tasks :
    LET tk == tasks[t]
    IN /\ (tk.pc \in {"blockDelay", "quickDelay"} /\ ~tk.failed
            /\ Exists(FetchedHeight(tk))
            /\ Len(ledger.txs[FetchedHeight(tk) + 1]) <= MaxAttempts * PageSize)
           => Ids(tk.edges) = Ids(ledger.txs[FetchedHeight(tk) + 1])
       /\ (tk.pc \in {"page", "pageDelay"} /\ ~tk.failed)
           => /\ tk.after = Len(tk.edges)
              /\ Ids(tk.edges) = Ids(SubSeq(ledger.txs[tk.cur + 1], 1, Len(tk.edges)))

\* a height of exactly MaxAttempts full pages has been returned whole
C12_Witness ==
  \E t \in Tasks :
    /\ tasks[t].pc \in {"blockDelay", "quickDelay"} /\ ~tasks[t].failed
    /\ tasks[t].attempts = MaxAttempts
    /\ Len(tasks[t].edges) = MaxAttempts * PageSize
    /\ Ids(tasks[t].edges) = Ids(ledger.txs[FetchedHeight(tasks[t]) + 1])

\* C13: a get_day_visual request runs at most VisualDays day scans; no day
\* scan starts after one that has sent a newBlock (no loadingStatus follows
\* a newBlock) and the request ends after that one; a request that has
\* ended without any newBlock, its connection open, has sent exactly one
\* error message, as its last message.
C13_VisualRetryBound ==
  \A t \in Tasks :
    tasks[t].kind = "visual" =>
      LET out == tasks[t].out
      IN /\ ~Done(t) => tasks[t].day < VisualDays
         /\ tasks[t].day <= VisualDays
         /\ \A i \in Positions(out, "newBlock"), j \in Positions(out, "loadingStatus") :
              j < i
         /\ (Done(t) /\ Count(out, "newBlock") > 0) => IsLast(out, "dayStreamComplete")
         /\ (Done(t) /\ Count(out, "newBlock") = 0 /\ open[tasks[t].conn])
              => (Count(out, "error") = 1 /\ IsLast(out, "error"))

\* C14: for every client value (missing, unreadable, zero, negative, huge)
\* a get_towers_quick scan runs with a per-category limit in 50..1000 and a
\* block bound in 200..20000, which maxScans keeps, and a
\* get_towers_recent_30d scan with a per-category limit in 1..2000.
C14_LimitsClamped ==
  /\ \A r \in RawValues :
       /\ QuickPerType(r) \in QuickPerTypeMin..QuickPerTypeMax
       /\ QuickBlockLimit(r) \in QuickBlockMin..QuickBlockMax
       /\ MediaLimit(r) \in MediaPerTypeMin..MediaPerTypeMax
  /\ \A t \in Tasks :
       /\ tasks[t].kind = "quick"
            => /\ tasks[t].limit \in 50..1000
               /\ tasks[t].blockScanLimit \in 200..20000
               /\ tasks[t].maxScans = tasks[t].blockScanLimit
       /\ tasks[t].kind = "media" => tasks[t].limit \in 1..2000

\* a quick scan runs with the lowest per-category limit and the highest
\* block bound beside a media scan with the highest limit, none of them a
\* default
C14_Witness ==
  /\ \E t \in Tasks : /\ tasks[t].kind = "quick" /\ tasks[t].pc = "block"
                       /\ tasks[t].limit = 50 /\ tasks[t].maxScans = 20000
  /\ \E t \in Tasks : tasks[t].kind = "media" /\ tasks[t].limit = 2000
  /\ QuickPerType(RawInt(-5)) = 50 /\ QuickBlockLimit(RawInt(20001)) = 20000
  /\ MediaLimit(RawInt(0)) = 500 /\ MediaLimit(RawNaN) = 500

\* the tasks of connection c
TasksOf(c) == {t \in Tasks : tasks[t].conn = c}

\* the stop flags and the session entries follow from the events of the
\* connection itself: a scan is cancelled only when its connection has sent
\* a newer request or has closed, and the entry of a connection that has a
\* day scan as its newest request is absent only when it has closed
OwnEventsOnly ==
  \A t \in Tasks :
    LET c == tasks[t].conn
    IN /\ Stopped(tasks[t]) => (~open[c] \/ \E u \in TasksOf(c) : u > t)
       /\ (tasks[t].ctl # 0 /\ active[c] # tasks[t].ctl)
            => (~open[c] \/ \E u \in TasksOf(c) : u > t)

\* C15: whatever connection 1 does (a request, a malformed message, a
\* disconnect), the scan of connection 2 is not cancelled, keeps its
\* session entry and is not cut short: it can still send every message it
\* would send alone.
C15_ConnectionsIsolated ==
  /\ OwnEventsOnly
  /\ \A t \in TasksOf(2) : ~Done(t) => alive

StrictlyAscending(hs) == \A i \in 1..(Len(hs) - 1) : hs[i] < hs[i + 1]
HeightsNonIncreasing(bucket) ==
  \A i \in 1..(Len(bucket) - 1) : bucket[i].height >= bucket[i + 1].height

\* C16: the heights of the newBlock messages of a day scan are strictly
\* ascending, whatever fails; in a quick scan the records of every bucket
\* are in non-increasing order of height, in the buckets and in every
\* snapshot sent.
C16_TraversalOrder ==
  \A t \in Tasks :
    /\ tasks[t].kind = "day" => StrictlyAscending(NewBlockHeights(tasks[t].out))
    /\ tasks[t].kind = "quick" =>
         \A c \in Cats :
           /\ HeightsNonIncreasing(tasks[t].buckets[c])
           /\ \A i \in 1..Len(tasks[t].out) : HeightsNonIncreasing(tasks[t].out[i].data[c])

\* the day scan has sent four blocks and the quick scan has ended with the
\* images of two heights in its final snapshot
C16_Witness ==
  /\ \E t \in Tasks : /\ tasks[t].kind = "day"
                       /\ NewBlockHeights(tasks[t].out) = <<0, 1, 2, 3>>
  /\ \E t \in Tasks :
       /\ tasks[t].kind = "quick" /\ Done(t)
       /\ \E i \in Positions(tasks[t].out, "towers") :
            LET b == tasks[t].out[i].data["image"]
            IN Len(b) = 2 /\ b[1].height = 3 /\ b[2].height = 2

\* the buckets of the final snapshot a task has sent
FinalTowers(t) ==
  LET out == tasks[t].out
  IN {out[i].data : i \in Positions(out, "towers")}

MediaFull(tk) == ~WantMore(tk.buckets, tk.limit)
\* the height at which the last of the three reached the limit
FullAt(tk) ==
  Min(tk.buckets["image"][tk.limit].height,
      Min(tk.buckets["video"][tk.limit].height, tk.buckets["audio"][tk.limit].height))

\* C18: once image, video and audio are all at the limit, the quick scan
\* makes requests for at most one further height (the one below the height
\* that filled them).
C18_BoundedOverfetch ==
  \A t \in Tasks :
    (tasks[t].kind = "quick" /\ tasks[t].limit > 0 /\ MediaFull(tasks[t])
       /\ tasks[t].pc \in {"block", "page", "pageDelay", "fallback"})
      => tasks[t].cur >= FullAt(tasks[t]) - 1

\* C19: the media scan requests a page of the query of a content type only
\* while the bucket of that type is below the limit.
C19_PerCategoryStop ==
  \A t \in Tasks :
    (tasks[t].kind = "media" /\ tasks[t].pc = "mpage")
      => HasRoom(tasks[t].buckets[MediaCats[tasks[t].ct]], tasks[t].limit)

\* C20: every record in a bucket of the media scan has a block timestamp
\* within the window, that is not before startTs.
C20_WithinWindow ==
  \A t \in Tasks :
    tasks[t].kind = "media" =>
      \A c \in Cats : \A i \in 1..Len(tasks[t].buckets[c]) :
        tasks[t].buckets[c][i].timestamp >= tasks[t].startTs

\* C21: every iteration of the quick scan (scanned grows by one), also one
\* whose block request failed, is followed by a towers_partial snapshot
\* exactly when it is the first, a 25th, or ends with 20 or more records
\* added since the last snapshot; and the step that ends the loop sends the
\* final towers snapshot.
C21_SnapshotCadence ==
  [][\A t \in Tasks :
       (tasks[t].kind = "quick" /\ open[tasks[t].conn] /\ tasks[t].pc # "info")
         => /\ tasks'[t].scanned = tasks[t].scanned + 1
                 => ((\/ tasks'[t].scanned = 1
                      \/ tasks'[t].scanned % SnapshotEvery = 0
                      \/ tasks'[t].adds >= SnapshotAdds
                      \/ Count(tasks'[t].out, "towers_partial")
                            > Count(tasks[t].out, "towers_partial"))
                     => /\ Count(tasks'[t].out, "towers_partial")
                             = Count(tasks[t].out, "towers_partial") + 1
                        /\ \/ tasks'[t].scanned = 1
                           \/ tasks'[t].scanned % SnapshotEvery = 0
                           \/ tasks'[t].adds = 0)
            /\ (tasks'[t].pc = "done" /\ tasks[t].pc # "done")
                 => Count(tasks'[t].out, "towers") = 1]_vars

\* one step of quick scan t: it starts at the frontier; heights only fall, by
\* one per iteration counted; a failed block request counts; requests are
\* made at heights above 0 only, a new block request at a lower height than
\* the one before; at most bound(t) iterations
QuickIterationStep(t, bound) ==
  LET old == tasks[t]
      new == tasks'[t]
  IN (old.kind = "quick" /\ new # old) =>
       /\ (old.pc = "info" /\ new.pc = "block") => new.cur = Frontier /\ new.scanned = 0
       /\ old.pc \notin {"new", "info"} =>
            /\ new.cur \in {old.cur, old.cur - 1}
            /\ new.scanned - old.scanned = old.cur - new.cur
            /\ new.cur + new.scanned = Frontier
       /\ (old.pc = "block" /\ new.pc \in {"block", "done"}) => new.scanned = old.scanned + 1
       /\ (old.pc = "block" /\ new.pc = "block") => new.cur = old.cur - 1
       /\ (old.pc # "quickDelay" /\ new.pc = "quickDelay") => new.cur = old.cur - 1
       /\ old.pc = "quickDelay" => new.cur = old.cur
       /\ new.pc \in {"block", "page", "pageDelay", "fallback"} => new.cur >= 1
       /\ new.scanned <= bound

\* a measure of what quick scan tk has left to do when it makes at most
\* bound iterations: the iterations left, then the requests left in the
\* iteration it is in
QuickRank(tk, bound) ==
  LET K == 2 * MaxAttempts + 5
      left == bound - tk.scanned
  IN CASE tk.pc = "done" -> 0
       [] tk.pc = "info" -> (bound + 1) * K + 1
       [] tk.pc = "block" -> left * K + 2 * MaxAttempts + 4
       [] tk.pc = "page" -> left * K + 2 * (MaxAttempts - tk.attempts) + 3
       [] tk.pc = "pageDelay" -> left * K + 2 * (MaxAttempts - tk.attempts) + 4
       [] tk.pc = "fallback" -> left * K + 2
       [] tk.pc = "quickDelay" -> (left + 1) * K + 1
       [] OTHER -> -1

\* every step of quick scan t brings it nearer to its end
QuickProgressStep(t, bound) ==
  (tasks[t].kind = "quick" /\ tasks'[t] # tasks[t]) =>
    /\ QuickRank(tasks'[t], bound) >= 0
    /\ QuickRank(tasks'[t], bound) < QuickRank(tasks[t], bound)

C23_LocatorUnderFailures ==
  \A t \in Tasks :
    Located(t) =>
      LET s == tasks[t].start
      IN /\ \/ s = Frontier + 1
            \/ /\ Exists(s)
               /\ ProbeOf(s) \notin ledger.script.fail
               /\ BlockTs(s) >= tasks[t].target
         /\ s >= TrueStart(tasks[t].target)

\* a probe has failed and the height returned is an existing one above the
\* smallest height with timestamp >= target
C23_Witness ==
  \E t \in Tasks :
    /\ Located(t) /\ tasks[t].failed
    /\ tasks[t].start > TrueStart(tasks[t].target)
    /\ Exists(tasks[t].start)

\* C24: for one height fetchAllBlockTransactions makes at most MaxAttempts
\* page requests (attempts counts those answered); a page request that fails
\* is followed by the fallback request and by no other request; the fallback
\* is followed by the return, and when it fails too, what is returned is what
\* the pages answered before had given, the first attempts full pages of the
\* height.
C24_RequestBudget ==
  [][\A t \in Tasks :
       LET old == tasks[t]
           new == tasks'[t]
       IN new # old =>
            /\ new.pc = "page" => new.attempts < MaxAttempts
            /\ (old.pc = "page" /\ faults' > faults)
                 => /\ new.pc \in {"fallback"} \cup ReturnPcs
                    /\ new.edges = old.edges /\ new.attempts = old.attempts
            /\ new.pc = "fallback"
                 => /\ old.pc = "page"
                    /\ Len(new.edges) = new.attempts * PageSize
                    /\ Ids(new.edges)
                         = Ids(SubSeq(ledger.txs[new.cur + 1], 1, Len(new.edges)))
            /\ old.pc = "fallback"
                 => /\ new.pc \in ReturnPcs
                    /\ faults' > faults => new.edges = old.edges
                    /\ faults' = faults
                         => new.edges = old.edges \o BlockPage(old.cur, NullCursor).edges]_vars

\* the third page request and then the fallback have failed, and the two
\* pages answered before have been returned
C24_Witness ==
  \E t \in Tasks :
    /\ faults = 2 /\ tasks[t].pc \in ReturnPcs
    /\ tasks[t].attempts = 2
    /\ Len(tasks[t].edges) = 2 * PageSize
    /\ Len(ledger.txs[FetchedHeight(tasks[t]) + 1]) > 2 * PageSize

\* the pcs of a day scan inside its loop
DayLoopPcs == {"block", "page", "pageDelay", "fallback", "blockDelay"}

\* C25: when the block request of a height of the day scan fails (or the
\* height does not exist), the step sends no newBlock and no error, moves on
\* to the next height and, unless the scan was stopped, asks for it; the
\* height of a scan never falls, so no height is asked for again.
C25_SkipsUnreadable ==
  [][\A t \in Tasks :
       LET old == tasks[t]
           new == tasks'[t]
       IN (old.kind = "day" /\ new # old) =>
            /\ (old.pc = "block" /\ (faults' > faults \/ ~Exists(old.cur)))
                 => /\ Count(new.out, "newBlock") = Count(old.out, "newBlock")
                    /\ Count(new.out, "error") = Count(old.out, "error")
                    /\ new.cur = old.cur + 1
                    /\ new.pc = "block" \/ DayLoopStop(old)
            /\ old.pc \in DayLoopPcs => new.cur >= old.cur]_vars

\* the block request of an existing height has failed: the scan has sent
\* the heights around it and no error
C25_Witness ==
  \E t \in Tasks :
    /\ tasks[t].kind = "day" /\ tasks[t].failed
    /\ Count(tasks[t].out, "error") = 0
    /\ \E h \in 0..Frontier :
         /\ h + 2 <= Frontier
         /\ NewBlockHeights(tasks[t].out) = <<h, h + 2>>

\* the heights in a sequence of heights
HeightSet(hs) == {hs[i] : i \in 1..Len(hs)}

\* the end bound of the request of day scan tk: the client's end when it
\* gave one, 23:59:59 UTC of the day of the start otherwise
EndTimeBound(tk) ==
  IF tk.hasEnd THEN tk.endOv
  ELSE (tk.target \div 86400) * 86400 + 23 * 3600 + 59 * 60 + 59

\* C26: every newBlock of a day scan is of a height with timestamp <= the
\* end bound; a height answered with a timestamp <= the bound, the bound
\* itself included, is sent; the scan ends at a height it was answered with
\* a timestamp > the bound and has not sent; the bound is the client's end
\* when the request has one.
C26_BoundarySemantics ==
  \A t \in Tasks :
    (tasks[t].kind = "day" /\ Located(t)) =>
      LET tk == tasks[t]
          sent == HeightSet(NewBlockHeights(tk.out))
      IN /\ tk.endTs = EndTimeBound(tk)
         /\ \A h \in sent : Exists(h) /\ BlockTs(h) <= EndTimeBound(tk)
         /\ ~tk.failed =>
              \A h \in tk.start..(tk.cur - 1) :
                (Exists(h) /\ BlockTs(h) <= EndTimeBound(tk)) => h \in sent
         /\ Done(t) => /\ Exists(tk.cur)
                       /\ BlockTs(tk.cur) > EndTimeBound(tk)
                       /\ tk.cur \notin sent
                       /\ ~tk.failed =>
                            \A h \in tk.start..(tk.cur - 1) : BlockTs(h) <= EndTimeBound(tk)

\* the client's end is the timestamp of a height: that height has been sent
\* and the scan has ended at the next, which is within the day of the start
C26_Witness ==
  \E t \in Tasks :
    /\ tasks[t].kind = "day" /\ Done(t) /\ tasks[t].hasEnd
    /\ tasks[t].cur >= 1
    /\ BlockTs(tasks[t].cur - 1) = tasks[t].endOv
    /\ tasks[t].cur - 1 \in HeightSet(NewBlockHeights(tasks[t].out))
    /\ BlockTs(tasks[t].cur) <= EndOfDay(tasks[t].target)

\* The classification the specification gives: the category of a record is
\* the primary token of the value of its last Content-Type tag, the name in
\* any case; other when there is none, when it is empty or not a category.
ContentTypeNames == {"Content-Type", "content-type", "Content-type"}

RECURSIVE LastContentType(_)
LastContentType(tags) ==
  IF tags = <<>> THEN Undef
  ELSE IF tags[Len(tags)].name \in ContentTypeNames THEN tags[Len(tags)].value
  ELSE LastContentType(SubSeq(tags, 1, Len(tags) - 1))

Category(tags) ==
  LET v == LastContentType(tags)
  IN IF v # Undef /\ v[1] \in {"image", "video", "audio", "application"}
     THEN v[1] ELSE "other"

\* height h has a record that classifies as image
BlockHasImage(h) ==
  \E i \in 1..Len(ledger.txs[h + 1]) : Category(ledger.txs[h + 1][i].tags) = "image"

\* C27: of the heights a day scan has fetched within the end bound, no
\* request having failed, it has sent newBlock for exactly those with a
\* record that classifies as image when it is visual-only, for all of them
\* when it is not; isVisual of a newBlock tells whether the height has such
\* a record.
C27_VisualFilter ==
  \A t \in Tasks :
    (tasks[t].kind \in {"day", "visual"} /\ Located(t)) =>
      LET tk == tasks[t]
          sent == HeightSet(NewBlockHeights(tk.out))
      IN /\ \A i \in Positions(tk.out, "newBlock") :
              tk.out[i].visual = BlockHasImage(tk.out[i].h)
         /\ \A h \in sent : ~tk.visualOnly \/ BlockHasImage(h)
         /\ ~tk.failed =>
              \A h \in tk.start..(tk.cur - 1) :
                (Exists(h) /\ BlockTs(h) <= tk.endTs)
                  => (h \in sent <=> (~tk.visualOnly \/ BlockHasImage(h)))

\* C28: in the quick scan and in the media scan alike, every record sits in
\* the bucket of its category: that of the primary token of its last
\* Content-Type tag (the name in any case) when it is image, video, audio or
\* application, other when not.
C28_Classification ==
  \A t \in Tasks :
    tasks[t].kind \in {"quick", "media"} =>
      \A c \in Cats :
        \A i \in 1..Len(tasks[t].buckets[c]) :
          Category(tasks[t].buckets[c][i].tags) = c

\* sequence a is the beginning of sequence b
IsPrefix(a, b) == Len(a) <= Len(b) /\ a = SubSeq(b, 1, Len(a))

\* the positions of the snapshots in what a task has sent
Snapshots(out) == Positions(out, "towers") \cup Positions(out, "towers_partial")

\* C29: in a quick or media scan every step leaves each bucket as it was or
\* with records added at its end, and a bucket at its limit as it was;
\* every snapshot sent is a prefix, bucket by bucket, of every later one and
\* of the buckets of the scan.
C29_AppendOnly ==
  [][\A t \in Tasks :
       tasks[t].kind \in {"quick", "media"} =>
         \A c \in Cats :
           LET old == tasks[t]
               new == tasks'[t]
           IN /\ IsPrefix(old.buckets[c], new.buckets[c])
              /\ Len(old.buckets[c]) >= old.limit => new.buckets[c] = old.buckets[c]
              /\ \A j \in Snapshots(new.out) :
                   /\ IsPrefix(new.out[j].data[c], new.buckets[c])
                   /\ \A i \in Snapshots(new.out) :
                        i < j => IsPrefix(new.out[i].data[c], new.out[j].data[c])]_vars

\* over the mixed ledger with limit 1 the quick scan has kept the newest
\* image and dropped the older one, and its final snapshot has an audio
\* record the first snapshot had not
C29_Witness ==
  \E t \in Tasks :
    /\ tasks[t].kind = "quick" /\ Done(t) /\ ledger = MixedLedger /\ tasks[t].limit = 1
    /\ Len(tasks[t].buckets["image"]) = 1 /\ tasks[t].buckets["image"][1].id = 31
    /\ \E i \in Positions(tasks[t].out, "towers_partial"), j \in Positions(tasks[t].out, "towers") :
         /\ i < j
         /\ tasks[t].out[i].data["audio"] = <<>>
         /\ Len(tasks[t].out[j].data["audio"]) = 1
         /\ tasks[t].out[i].data["image"] = tasks[t].out[j].data["image"]

\* image, video and audio are all at the limit
MediaAtLimit(tk) ==
  \A c \in {"image", "video", "audio"} : Len(tk.buckets[c]) >= tk.limit

\* the place of record id among the records of height h
PlaceOf(h, id) == CHOOSE i \in 1..Len(ledger.txs[h + 1]) : ledger.txs[h + 1][i].id = id

\* entry a was scanned before entry b: at a greater height, or earlier at
\* the same height
ScannedBefore(a, b) ==
  \/ a.height > b.height
  \/ a.height = b.height /\ PlaceOf(a.height, a.id) < PlaceOf(b.height, b.id)

\* the entries of the buckets cs of scan tk
EntriesOf(tk, cs) == UNION { {tk.buckets[c][i] : i \in 1..Len(tk.buckets[c])} : c \in cs }

\* C30: in the quick scan, once image, video and audio are at the limit no
\* bucket changes any more, and application and other hold nothing scanned
\* after the record that filled the last of the three; a block returned
\* while one of the three still has room has had every record offered, a
\* full application or other bucket notwithstanding; and the scan ends
\* only at height 0 or at maxScans iterations, whatever the buckets hold.
C30_MediaGate ==
  [][\A t \in Tasks :
       LET old == tasks[t]
           new == tasks'[t]
       IN (old.kind = "quick" /\ new # old /\ old.pc # "info") =>
            /\ MediaAtLimit(old) => new.buckets = old.buckets
            /\ MediaAtLimit(new) =>
                 \A e \in EntriesOf(new, {"application", "other"}) :
                   \E f \in EntriesOf(new, {"image", "video", "audio"}) : ScannedBefore(e, f)
            /\ (new.pc = "quickDelay" /\ old.pc # "quickDelay" /\ ~MediaAtLimit(new))
                 => \A i \in 1..Len(new.edges) :
                      LET key == QuickKey(new.edges[i].tags)
                      IN \/ Len(new.buckets[key]) >= new.limit
                         \/ \E j \in 1..Len(new.buckets[key]) :
                              new.buckets[key][j].id = new.edges[i].id
            /\ (new.pc = "done" /\ open[new.conn])
                 => new.cur = 0 \/ new.scanned >= new.maxScans]_vars

\* over the mixed ledger with limit 1: application was full before the video
\* record of the same block was taken, audio filled the last media bucket
\* at height 2, and other has stayed empty although records of it followed
C30_Witness ==
  \E t \in Tasks :
    /\ tasks[t].kind = "quick" /\ Done(t) /\ open[tasks[t].conn] /\ ~tasks[t].failed
    /\ ledger = MixedLedger /\ tasks[t].limit = 1
    /\ MediaAtLimit(tasks[t])
    /\ tasks[t].buckets["other"] = <<>>
    /\ Len(tasks[t].buckets["application"]) = 1
    /\ tasks[t].buckets["application"][1].id = 32
    /\ tasks[t].buckets["video"][1].id = 33
    /\ tasks[t].scanned = 3

\* C31: the media scan asks for image, then video, then audio: its content
\* type never goes back and within one type its cursor only advances; a
\* tag query that fails ends the paging of its type only, the next type
\* being asked for when a media bucket still has room; the towers snapshot
\* is sent once, as the last message, after the three types.
C31_CategoriesInSequence ==
  [][\A t \in Tasks :
       LET old == tasks[t]
           new == tasks'[t]
       IN (old.kind = "media" /\ new # old) =>
            /\ new.ct >= old.ct
            /\ new.ct = old.ct => new.after >= old.after
            /\ new.pc = "mpage" => new.ct \in 1..Len(MediaCats)
            /\ (old.pc = "mpage" /\ faults' > faults)
                 => /\ new.buckets = old.buckets
                    /\ \/ new.pc = "mpage" /\ new.ct = old.ct + 1
                          /\ new.after = NullCursor
                       \/ new.pc = "done"
                          /\ (old.ct = Len(MediaCats) \/ ~WantMore(new.buckets, new.limit))
            /\ Count(new.out, "towers") <= 1
            /\ Count(new.out, "towers") = 1
                 => /\ new.pc = "done" /\ new.ct > Len(MediaCats)
                    /\ IsLast(new.out, "towers")
            /\ (new.pc = "done" /\ open[new.conn]) => Count(new.out, "towers") = 1]_vars

\* over the mixed ledger the first image query has failed, the video query
\* has been answered, and the scan has ended with its one towers snapshot
C31_Witness ==
  \E t \in Tasks :
    /\ tasks[t].kind = "media" /\ Done(t) /\ tasks[t].failed /\ ledger = MixedLedger
    /\ tasks[t].buckets["image"] = <<>>
    /\ Len(tasks[t].buckets["video"]) >= 1
    /\ Len(tasks[t].buckets["audio"]) >= 1
    /\ Count(tasks[t].out, "towers") = 1

\* C32: once the stop flag of a day scan is set and the request that was in
\* flight has been answered (the scan has resumed since), the scan starts no
\* request to the gateway: no probe, no block request, no page request.
C32_CheckpointBeforeRequest ==
  [][\A t \in Tasks :
       (tasks[t].kind \in {"day", "visual"} /\ Stopped(tasks[t])
          /\ tasks[t].sinceStop >= 1 /\ tasks'[t] # tasks[t])
         => tasks'[t].pc \notin {"info", "probe", "block", "page", "fallback"}]_vars

\* the probes a binary search over s heights makes at most
RECURSIVE ProbesLeft(_)
ProbesLeft(s) == IF s <= 0 THEN 0 ELSE 1 + ProbesLeft(s \div 2)

\* 2^k, and the smallest k with 2^k >= n
RECURSIVE Pow2(_)
Pow2(k) == IF k = 0 THEN 1 ELSE 2 * Pow2(k - 1)
CeilLog2(n) == CHOOSE k \in 0..n : Pow2(k) >= n /\ \A j \in 0..(k - 1) : Pow2(j) < n

\* C33: the search starts with the interval [0, frontier], which allows
\* ceil(log2(frontier + 2)) probes; every probe is of a height of the
\* interval; answered or failed, it leaves an interval inside the old one,
\* smaller, without the height probed and allowing fewer probes; the search
\* goes on exactly while low <= high.
C33_LocatorTerminates ==
  [][\A t \in Tasks :
       LET old == tasks[t]
           new == tasks'[t]
       IN (old.kind = "day" /\ new # old) =>
            /\ (old.pc = "info" /\ new.pc = "probe")
                 => /\ new.low = 0 /\ new.high = Frontier
                    /\ ProbesLeft(new.high - new.low + 1) = CeilLog2(Frontier + 2)
            /\ new.pc = "probe"
                 => /\ new.low <= new.mid /\ new.mid <= new.high
                    /\ 0 <= new.mid /\ new.mid <= Frontier
            /\ old.pc = "probe"
                 => /\ new.pc = "probeDelay"
                    /\ new.low >= old.low /\ new.high <= old.high
                    /\ new.high - new.low < old.high - old.low
                    /\ old.mid \notin new.low..new.high
                    /\ ProbesLeft(new.high - new.low + 1)
                         < ProbesLeft(old.high - old.low + 1)
            /\ old.pc = "probeDelay"
                 => /\ new.low = old.low /\ new.high = old.high
                    /\ new.pc = "probe" <=> old.low <= old.high]_vars

\* over the tallest ledger the search is at its last probe, of the frontier
\* alone, which is going to fail
C33_Witness ==
  \E t \in Tasks :
    /\ tasks[t].pc = "probe"
    /\ Frontier = MaxFrontier
    /\ tasks[t].low = tasks[t].high /\ tasks[t].mid = Frontier
    /\ ProbeOf(tasks[t].mid) \in ledger.script.fail

\* C34: a day scan whose locator has returned frontier + 1 sends no newBlock.
C34_SentinelStreamsNothing ==
  \A t \in Tasks :
    (tasks[t].kind = "day" /\ Located(t) /\ tasks[t].start = Frontier + 1)
      => Count(tasks[t].out, "newBlock") = 0

\* the target lies after the frontier block, the scan has started at
\* frontier + 1, has been answered that there is no such height and has
\* gone on to the next
C34_Witness ==
  \E t \in Tasks :
    /\ tasks[t].kind = "day" /\ tasks[t].pc = "block"
    /\ tasks[t].target > BlockTs(Frontier)
    /\ tasks[t].start = Frontier + 1
    /\ tasks[t].cur = Frontier + 2
    /\ Count(tasks[t].out, "newBlock") = 0

\* C35: a day scan that is not stopped and whose connection is open comes
\* to an end also when the heights left are unreadable: once it has been
\* answered that a height above the frontier does not exist, it does not
\* go on to ask for the next height, and so on without end.
C35_DayScanEnds ==
  [][\A t \in Tasks :
       LET old == tasks[t]
           new == tasks'[t]
       IN (old.kind \in {"day", "visual"} /\ new # old /\ ~DayLoopStop(old)
             /\ old.pc = "block" /\ old.cur > Frontier)
            => ~(new.pc = "block" /\ new.cur > old.cur)]_vars

\* C36: a day scan sends at most one newBlock after its stop flag has been
\* set, however the request that sets the flag falls between its awaits.
C36_BoundedLeak ==
  \A t \in Tasks :
    tasks[t].kind \in {"day", "visual"} => tasks[t].sentSinceStop <= 1

\* a get_day scan stopped by a newer request has sent one newBlock since
\* and has ended
C36_Witness ==
  \E t \in Tasks :
    /\ tasks[t].kind = "day" /\ Done(t) /\ open[tasks[t].conn]
    /\ Stopped(tasks[t]) /\ tasks[t].sentSinceStop = 1
    /\ \E u \in Tasks : u > t /\ tasks[u].conn = tasks[t].conn

\* the controls created for connection c: those of its day scans
ControlsOf(c) ==
  {tasks[t].ctl : t \in {u \in Tasks : tasks[u].conn = c /\ tasks[u].ctl # 0}}

\* of the controls of every connection at most one is not stopped: the
\* newest, which is the one in activeStreams; none when the connection has
\* closed
ControlsOk ==
  \A c \in Conns :
    LET live == {i \in ControlsOf(c) : ~ctls[i]}
    IN /\ Cardinality(live) <= 1
       /\ \A i \in live : /\ \A j \in ControlsOf(c) : j <= i
                          /\ active[c] = i
       /\ ~open[c] => live = {}

\* C37: the controls of a connection are as above after every step, and a
\* stop flag that is set stays set.
C37_DayScanControls ==
  [][/\ ControlsOk'
     /\ \A i \in 1..Len(ctls) : ctls[i] => ctls'[i]]_vars

\* two day requests on connection 1: the control of the first is stopped,
\* that of the second is not
C37_Witness ==
  /\ Len(ctls) = 2 /\ ctls[1] /\ ~ctls[2]
  /\ ControlsOf(1) = {1, 2}
  /\ active[1] = 2

\* the positions of the towers and error messages in what a task has sent
Terminals(out) == Positions(out, "towers") \cup Positions(out, "error")

\* C38: a quick or media scan sends towers or error at most once in all and
\* only as it ends, exactly once when its connection is open as it ends,
\* and no towers_partial after it.
C38_OneTerminalMessage ==
  \A t \in Tasks :
    tasks[t].kind \in {"quick", "media"} =>
      LET out == tasks[t].out
      IN /\ Cardinality(Terminals(out)) <= 1
         /\ Terminals(out) # {} => Done(t)
         /\ (Done(t) /\ open[tasks[t].conn]) => Cardinality(Terminals(out)) = 1
         /\ \A i \in Terminals(out), j \in Positions(out, "towers_partial") : j < i

\* a quick scan a request of which has failed has ended with towers, after
\* a partial snapshot, and without an error
C38_Witness ==
  \E t \in Tasks :
    /\ tasks[t].kind = "quick" /\ Done(t) /\ tasks[t].failed
    /\ Count(tasks[t].out, "towers") = 1 /\ Count(tasks[t].out, "error") = 0
    /\ Count(tasks[t].out, "towers_partial") >= 1

\* C39: the list fetchAllBlockTransactions has returned for a height holds
\* no record twice.
C39_NoDuplicateRecords ==
  \A t \in Tasks :
    tasks[t].pc \in ReturnPcs =>
      \A i, j \in 1..Len(tasks[t].edges) :
        i # j => tasks[t].edges[i].id # tasks[t].edges[j].id

=============================================================================
